---- MODULE Spec2Model ----
(***************************************************************************)
(* Concierge memory layer (src/api/memory.py, src/api/ingest.py): the      *)
(* three JSON collections (memories, conversations, digests), the          *)
(* operations on them, and the digest computation.                         *)
(*                                                                         *)
(* Texts are TLA+ strings handled character by character (Len, SubSeq,     *)
(* Head, Tail and \o work on strings in TLC), so substring tests, lower(), *)
(* split() and strip() are computed as Python computes them.               *)
(***************************************************************************)
EXTENDS Integers, Sequences, FiniteSets, TLC

VARIABLES
    memFile,    \* memories.json:      [st, data]
    convFile,   \* conversations.json: [st, data]
    digFile,    \* digests.json:       [st, data]
    now,        \* the clock read by datetime.now() / utcnow()
    ret,        \* the last completed call: its name, argument, outcome
    added,      \* every conversation entry ever appended, oldest first
    pc,         \* concurrent callers: position of each caller in its call
    loc,        \* concurrent callers: the local variables of each caller
    log         \* concurrent callers: what each completed call observed

vars == <<memFile, convFile, digFile, now, ret, added, pc, loc, log>>

----------------------------------------------------------------------------
(* Bounds of the model *)

\* number of calls in a sequential run
MaxCalls == 2
\* number of calls in a run of the digest cycle
MaxDigestCalls == 4
\* number of calls in a run over missing or malformed stores
MaxFailCalls == 2
\* number of retrieval calls in a run
MaxSearchCalls == 1
\* number of calls in a run over one decoded memory
MaxDecodeCalls == 2
\* number of save_conversation calls in a run
MaxConvCalls == 3
\* number of extractions one fetch returns
MaxBatch == 2

----------------------------------------------------------------------------
(* Python string primitives *)

UpperAlphabet == "ABCDEFGHIJKLMNOPQRSTUVWXYZ"
LowerAlphabet == "abcdefghijklmnopqrstuvwxyz"
DigitChars == "0123456789"

\* s[i], 1-based
Char(s, i) == SubSeq(s, i, i)

\* the lowercase letter of each uppercase letter
LowerOf == [i \in 1..Len(UpperAlphabet) |-> Char(LowerAlphabet, i)]
UpperIndex(c) == CHOOSE i \in 1..Len(UpperAlphabet) : Char(UpperAlphabet, i) = c
UpperLetters == {Char(UpperAlphabet, i) : i \in 1..Len(UpperAlphabet)}

\* c.lower() for one character
LowerChar(c) == IF c \in UpperLetters THEN LowerOf[UpperIndex(c)] ELSE c

\* s.lower(): each character lowered, the halves of s joined
RECURSIVE Lower(_)
Lower(s) ==
    IF Len(s) = 0 THEN ""
    ELSE IF Len(s) = 1 THEN LowerChar(s)
    ELSE Lower(SubSeq(s, 1, Len(s) \div 2)) \o Lower(SubSeq(s, (Len(s) \div 2) + 1, Len(s)))

\* s.startswith(p), s.endswith(p)
StartsWith(s, p) == Len(p) <= Len(s) /\ SubSeq(s, 1, Len(p)) = p
EndsWith(s, p) == Len(p) <= Len(s) /\ SubSeq(s, Len(s) - Len(p) + 1, Len(s)) = p

\* the 1-based positions at which sub occurs in s
Occurrences(sub, s) ==
    {i \in 1..(Len(s) - Len(sub) + 1) : SubSeq(s, i, i + Len(sub) - 1) = sub}

\* s.find(sub): the 1-based index of the first occurrence, 0 when there is none
Find(sub, s) ==
    LET hits == Occurrences(sub, s) IN
    IF hits = {} THEN 0 ELSE CHOOSE i \in hits : \A j \in hits : i <= j

\* sub in s
Contains(sub, s) == Find(sub, s) > 0

\* s.split(sep) for a non-empty separator
RECURSIVE Split(_, _)
Split(s, sep) ==
    LET k == Find(sep, s) IN
    IF k = 0 THEN <<s>>
    ELSE <<SubSeq(s, 1, k - 1)>> \o Split(SubSeq(s, k + Len(sep), Len(s)), sep)

IsSpace(c) == c = " "

\* s.strip(chars): characters of `chars` removed from both ends
RECURSIVE LStripChars(_, _)
LStripChars(s, chars) ==
    IF s # "" /\ Contains(Head(s), chars) THEN LStripChars(Tail(s), chars) ELSE s

RECURSIVE RStripChars(_, _)
RStripChars(s, chars) ==
    IF s # "" /\ Contains(Char(s, Len(s)), chars)
    THEN RStripChars(SubSeq(s, 1, Len(s) - 1), chars) ELSE s

StripChars(s, chars) == RStripChars(LStripChars(s, chars), chars)

\* s.strip()
Strip(s) == StripChars(s, " ")

\* s.split(): the whitespace-separated words of s
SplitWords(s) == SelectSeq(Split(s, " "), LAMBDA w : w # "")

\* s.replace(old, new)
RECURSIVE Replace(_, _, _)
Replace(s, old, new) ==
    LET k == Find(old, s) IN
    IF k = 0 THEN s
    ELSE SubSeq(s, 1, k - 1) \o new \o Replace(SubSeq(s, k + Len(old), Len(s)), old, new)

\* x in list
InSeq(x, seq) == \E i \in 1..Len(seq) : seq[i] = x

----------------------------------------------------------------------------
(* The record store *)

Missing == [st |-> "missing", data |-> <<>>]
Corrupt == [st |-> "corrupt", data |-> <<>>]
Stored(entries) == [st |-> "ok", data |-> entries]

\* (a variant that fails open: a malformed file reads as an empty collection)
LoadNeverRaises(file) == FALSE

\* json.load raises on a file that exists and does not parse
LoadRaises(file) == file.st = "corrupt"

\* load_memories / load_conversations / load_digests
Load(file) == IF file.st = "ok" THEN file.data ELSE <<>>

\* the entry add_memory builds: source and tags are stored only when truthy
MemoryEntry(text, source, tags, t) ==
    [text |-> text, timestamp |-> [t |-> t, tz |-> "local"], source |-> source, tags |-> tags]

----------------------------------------------------------------------------
(* Ingestion: src/api/ingest.py *)

\* str(n) for n >= 0
RECURSIVE IntToStr(_)
IntToStr(n) ==
    IF n < 10 THEN Char(DigitChars, n + 1)
    ELSE IntToStr(n \div 10) \o Char(DigitChars, (n % 10) + 1)

\* An identifier as the source returns it: a Python int or a Python str.
\* s is what str(id) gives; 42 and "42" are different values with the same s.
IntId(n) == [t |-> "int", s |-> IntToStr(n)]
StrId(s) == [t |-> "str", s |-> s]

\* The extraction dicts the fetch can return.  "" stands for an absent key,
\* conf is the confidence in percent (-1: absent), rows the number of
\* measurements (-1: no value dict), glasses the set of verre1..3 values seen.
Ext1 == [id |-> IntId(42), factory_name |-> "FA", factory_id |-> "1", tenant |-> "",
         status |-> "verified", nom |-> "Dupont", numero |-> "", tier |-> "1",
         method |-> "exact", rows |-> 3, glasses |-> {"Planilux"},
         title |-> "", matched |-> 2, conf |-> 92, created_at |-> "2024-05-01T10:00:00Z"]
Ext2 == [id |-> StrId("a7"), factory_name |-> "FB", factory_id |-> "2", tenant |-> "vip",
         status |-> "rejected", nom |-> "Bob", numero |-> "9", tier |-> "2",
         method |-> "fuzzy", rows |-> 1, glasses |-> {"Float", "Securit"},
         title |-> "", matched |-> 0, conf |-> 55, created_at |-> "2024-05-02T08:30:00Z"]
Ext3 == [id |-> StrId("b8"), factory_name |-> "", factory_id |-> "3", tenant |-> "",
         status |-> "", nom |-> "", numero |-> "", tier |-> "",
         method |-> "", rows |-> -1, glasses |-> {},
         title |-> "", matched |-> 0, conf |-> -1, created_at |-> ""]
Extractions == {Ext1, Ext3}

\* every sequence of at most n elements of S
RECURSIVE SeqsUpTo(_, _)
SeqsUpTo(S, n) ==
    IF n = 0 THEN {<<>>}
    ELSE LET shorter == SeqsUpTo(S, n - 1) IN
         shorter \cup {Append(q, x) : q \in {r \in shorter : Len(r) = n - 1}, x \in S}

\* what client.fetch can return
Fetches == SeqsUpTo(Extractions, MaxBatch)

\* the orders in which list(set) can enumerate a set
Orderings(S) ==
    {q \in SeqsUpTo(S, Cardinality(S)) :
        Len(q) = Cardinality(S) /\ \A x \in S : InSeq(x, q)}

\* ", ".join(list)
RECURSIVE Join(_, _)
Join(list, sep) ==
    IF list = <<>> THEN ""
    ELSE IF Len(list) = 1 THEN list[1]
    ELSE list[1] \o sep \o Join(Tail(list), sep)

FirstN(list, n) == SubSeq(list, 1, IF Len(list) < n THEN Len(list) ELSE n)

\* list[:n]: a negative n counts from the end
SliceTo(list, n) ==
    IF n >= 0 THEN FirstN(list, n)
    ELSE SubSeq(list, 1, IF Len(list) + n > 0 THEN Len(list) + n ELSE 0)

\* list[-n:]: -0 is 0, the whole list; a negative n makes the start positive
SliceLast(list, n) ==
    IF n > 0 THEN SubSeq(list, IF Len(list) > n THEN Len(list) - n + 1 ELSE 1, Len(list))
    ELSE SubSeq(list, IF -n < Len(list) THEN -n + 1 ELSE Len(list) + 1, Len(list))

\* _summarize_extraction(ext); order is the enumeration order of the glass set
SummarizeExtraction(ext, order) ==
    LET factory == IF ext.factory_name # "" THEN ext.factory_name
                   ELSE "factory_" \o ext.factory_id
        head    == <<"[" \o factory \o "]"
                     \o (IF ext.tenant # "" THEN " (" \o ext.tenant \o ")" ELSE "")>>
        status  == <<"status=" \o (IF ext.status # "" THEN ext.status ELSE "unknown")>>
        client  == IF ext.nom # ""
                   THEN <<"client=" \o ext.nom
                          \o (IF ext.numero # "" THEN " #" \o ext.numero ELSE "")
                          \o " (tier " \o ext.tier \o ", " \o ext.method \o ")">>
                   ELSE <<>>
        lines   == IF ext.rows >= 0 THEN <<IntToStr(ext.rows) \o " line(s)">> ELSE <<>>
        glass   == IF ext.rows >= 0 /\ ext.glasses # {}
                   THEN <<"glass: " \o Join(FirstN(order, 3), ", ")>> ELSE <<>>
        title   == IF ext.rows >= 0 /\ ext.title # ""
                   THEN <<"project=\"" \o FirstN(ext.title, 60) \o "\"">> ELSE <<>>
        matched == IF ext.matched > 0
                   THEN <<IntToStr(ext.matched) \o " row(s) matched">> ELSE <<>>
        conf    == IF ext.conf >= 0 THEN <<"conf=" \o IntToStr(ext.conf) \o "%">> ELSE <<>>
        created == IF ext.created_at # ""
                   THEN <<"created=" \o FirstN(ext.created_at, 10)>> ELSE <<>>
    IN  Join(head \o status \o client \o lines \o glass \o title \o matched
             \o conf \o created, " | ")

\* s.split(sep)[0] and s.split(sep)[1], the latter for s that contains sep
SplitFirst(s, sep) == IF Find(sep, s) = 0 THEN s ELSE SubSeq(s, 1, Find(sep, s) - 1)
SplitSecond(s, sep) == SplitFirst(SubSeq(s, Find(sep, s) + Len(sep), Len(s)), sep)

\* the identifier ingest_extractions reads back from a stored memory text
ParseExtId(text) ==
    Strip(SplitFirst(SplitFirst(SplitSecond(text, "ext_id="), " "), "|"))

\* existing_ids: the identifiers (strings) of the stored extraction memories
ExistingIds(existing) ==
    {ParseExtId(existing[i].text) :
        i \in {j \in 1..Len(existing) :
                  /\ InSeq("extraction", existing[j].tags)
                  /\ Contains("ext_id=", existing[j].text)}}

\* ext_id in existing_ids: Python compares an int with a str as unequal
IdIn(ext_id, ids) == ext_id.t = "str" /\ ext_id.s \in ids

\* the memory entry ingest_extractions builds for one extraction
ExtractionEntry(ext, order, t) ==
    [text      |-> "ext_id=" \o ext.id.s \o " | " \o SummarizeExtraction(ext, order),
     timestamp |-> [t |-> t, tz |-> "utc"],
     source    |-> "monce_db",
     tags      |-> <<"extraction", IF ext.status # "" THEN ext.status ELSE "unknown">>
                   \o (IF ext.factory_name # "" THEN <<ext.factory_name>> ELSE <<>>)]

\* new_entries: one entry per fetched extraction whose id is not in ids
RECURSIVE NewEntries(_, _, _, _)
NewEntries(data, orders, ids, t) ==
    IF data = <<>> THEN <<>>
    ELSE (IF IdIn(data[1].id, ids) THEN <<>>
          ELSE <<ExtractionEntry(data[1], orders[1], t)>>)
         \o NewEntries(Tail(data), Tail(orders), ids, t)

\* skipped: the number of fetched extractions whose id is in ids
RECURSIVE Skipped(_, _)
Skipped(data, ids) ==
    IF data = <<>> THEN 0
    ELSE (IF IdIn(data[1].id, ids) THEN 1 ELSE 0) + Skipped(Tail(data), ids)

\* one enumeration order of the glass set per fetched extraction
RECURSIVE GlassOrders(_)
GlassOrders(data) ==
    IF data = <<>> THEN {<<>>}
    ELSE {<<o>> \o rest : o \in Orderings(data[1].glasses), rest \in GlassOrders(Tail(data))}

----------------------------------------------------------------------------
(* Digest computation: src/api/memory.py, compute_digests *)

IsDigits(s) == s # "" /\ \A i \in 1..Len(s) : Contains(Char(s, i), DigitChars)

DigitValue(c) == (CHOOSE i \in 1..10 : Char(DigitChars, i) = c) - 1

RECURSIVE DigitsToInt(_)
DigitsToInt(s) ==
    IF s = "" THEN 0
    ELSE 10 * DigitsToInt(SubSeq(s, 1, Len(s) - 1)) + DigitValue(Char(s, Len(s)))

\* int(s) / float(s) succeed: the texts of the model carry unsigned whole numbers
Parses(s) == IsDigits(Strip(s))
ParseNumber(s) == DigitsToInt(Strip(s))

\* a decoded record before any segment is read; has = the keys that are set
EmptyRecord(m) ==
    [has |-> {}, text |-> m.text, tags |-> m.tags, timestamp |-> m.timestamp,
     client |-> "", factory |-> "", status |-> "", lines |-> 0, glasses |-> <<>>,
     confidence |-> 0, created_date |-> "", matched_rows |-> 0, error |-> ""]

\* [f(x) for x in list]
RECURSIVE StripAll(_)
StripAll(list) ==
    IF list = <<>> THEN <<>> ELSE <<Strip(list[1])>> \o StripAll(Tail(list))

\* (a variant without the try around int())
NothingCaught == {}

\* except (ValueError, IndexError) around int(part.split()[0])
IntCaught == {"ValueError", "IndexError"}

\* except ValueError around float(...)
FloatCaught == {"ValueError"}

\* the exception list[i] raises, "" when there is none (i counts from 1)
IndexError(list, i) == IF Len(list) < i THEN "IndexError" ELSE ""

\* the exception int(part.split()[0]) raises
IntError(part) ==
    IF SplitWords(part) = <<>> THEN "IndexError"
    ELSE IF ~Parses(SplitWords(part)[1]) THEN "ValueError"
    ELSE ""

\* the exception float(s) raises
FloatError(s) == IF Parses(s) THEN "" ELSE "ValueError"

\* the record after a statement that raised err: unchanged when the except
\* clause names err, otherwise the exception leaves the loop
AfterError(r, err, caught) == IF err \in caught THEN r ELSE [r EXCEPT !.error = err]

\* one pass of the if/elif chain over a stripped segment
DecodePart(r, part) ==
    IF StartsWith(part, "client=")
    THEN IF IndexError(Split(part, "client="), 2) # ""
         THEN AfterError(r, "IndexError", {})
         ELSE [r EXCEPT !.client = Strip(Split(Split(part, "client=")[2], "(")[1]),
                        !.has = @ \cup {"client"}]
    ELSE IF StartsWith(part, "[") /\ EndsWith(part, "]")
    THEN [r EXCEPT !.factory = StripChars(part, "[]"), !.has = @ \cup {"factory"}]
    ELSE IF Contains("(", part) /\ StartsWith(part, "[")
    THEN [r EXCEPT !.factory = StripChars(Split(part, "]")[1], "[ "),
                   !.has = @ \cup {"factory"}]
    ELSE IF StartsWith(part, "status=")
    THEN IF IndexError(Split(part, "="), 2) # ""
         THEN AfterError(r, "IndexError", {})
         ELSE [r EXCEPT !.status = Strip(Split(part, "=")[2]), !.has = @ \cup {"status"}]
    ELSE IF Contains("line(s)", part)
    THEN IF IntError(part) # ""
         THEN AfterError(r, IntError(part), IntCaught)
         ELSE [r EXCEPT !.lines = ParseNumber(SplitWords(part)[1]),
                        !.has = @ \cup {"lines"}]
    ELSE IF StartsWith(part, "glass:")
    THEN [r EXCEPT !.glasses = StripAll(Split(Replace(part, "glass:", ""), ",")),
                   !.has = @ \cup {"glasses"}]
    ELSE IF StartsWith(part, "conf=")
    THEN LET number == Replace(Replace(part, "conf=", ""), "%", "") IN
         IF FloatError(number) # ""
         THEN AfterError(r, FloatError(number), FloatCaught)
         ELSE [r EXCEPT !.confidence = ParseNumber(number),
                        !.has = @ \cup {"confidence"}]
    ELSE IF StartsWith(part, "created=")
    THEN IF IndexError(Split(part, "="), 2) # ""
         THEN AfterError(r, "IndexError", {})
         ELSE [r EXCEPT !.created_date = Strip(Split(part, "=")[2]),
                        !.has = @ \cup {"created_date"}]
    ELSE IF Contains("row(s) matched", part)
    THEN IF IntError(part) # ""
         THEN AfterError(r, IntError(part), IntCaught)
         ELSE [r EXCEPT !.matched_rows = ParseNumber(SplitWords(part)[1]),
                        !.has = @ \cup {"matched_rows"}]
    ELSE r

RECURSIVE DecodeParts(_, _)
DecodeParts(r, parts) ==
    IF parts = <<>> \/ r.error # "" THEN r
    ELSE DecodeParts(DecodePart(r, Strip(parts[1])), Tail(parts))

ReservedTags == {"extraction", "verified", "extracted", "rejected", "unknown"}

\* the factory taken from the first tag that is not a status word
FactoryFromTags(r) ==
    LET free == SelectSeq(r.tags, LAMBDA t : t \notin ReservedTags) IN
    IF r.error = "" /\ "factory" \notin r.has /\ free # <<>>
    THEN [r EXCEPT !.factory = free[1], !.has = @ \cup {"factory"}]
    ELSE r

\* the record decoded from one extraction memory
DecodeRecord(m) == FactoryFromTags(DecodeParts(EmptyRecord(m), Split(m.text, "|")))

\* r.get(key, default)
Get(r, key, default) == IF key \in r.has THEN r[key] ELSE default

\* the memories tagged "extraction"
ExtractionsOf(memories) == SelectSeq(memories, LAMBDA m : InSeq("extraction", m.tags))

RECURSIVE DecodeAll(_)
DecodeAll(ms) == IF ms = <<>> THEN <<>> ELSE <<DecodeRecord(ms[1])>> \o DecodeAll(Tail(ms))

\* an exception leaves the decoding loop
DecodeRaises(ms) == \E i \in 1..Len(ms) : DecodeRecord(ms[i]).error # ""

(* collections.Counter: <<key, count>> pairs in order of first insertion *)
CounterAdd(c, k) ==
    IF \E i \in 1..Len(c) : c[i][1] = k
    THEN [i \in 1..Len(c) |-> IF c[i][1] = k THEN <<k, c[i][2] + 1>> ELSE c[i]]
    ELSE Append(c, <<k, 1>>)

RECURSIVE CountKeys(_, _)
CountKeys(c, keys) ==
    IF keys = <<>> THEN c ELSE CountKeys(CounterAdd(c, keys[1]), Tail(keys))

\* stable insertion of <<key, item>> into a list sorted by key descending
RECURSIVE InsertDesc(_, _)
InsertDesc(sorted, p) ==
    IF sorted = <<>> THEN <<p>>
    ELSE IF sorted[1][1] >= p[1] THEN <<sorted[1]>> \o InsertDesc(Tail(sorted), p)
    ELSE <<p>> \o sorted

\* list.sort(key=..., reverse=True) over <<key, item>> pairs: stable
RECURSIVE SortDesc(_)
SortDesc(keyed) ==
    IF keyed = <<>> THEN <<>>
    ELSE InsertDesc(SortDesc(SubSeq(keyed, 1, Len(keyed) - 1)), keyed[Len(keyed)])

\* the items of a sorted <<key, item>> list
Items(keyed) == [i \in 1..Len(keyed) |-> keyed[i][2]]

\* Counter.most_common(n)
MostCommon(c, n) ==
    FirstN(Items(SortDesc([i \in 1..Len(c) |-> <<c[i][2], c[i]>>])), n)

(* string order: Python compares strings by code point; the table lists the
   printable ASCII characters the texts of the model use, in code point order *)
AsciiOrder ==
    " !\"#$%&'()*+,-./0123456789:;<=>?@ABCDEFGHIJKLMNOPQRSTUVWXYZ[\\]^_abcdefghijklmnopqrstuvwxyz{|}~"

Ord(c) == CHOOSE i \in 1..Len(AsciiOrder) : Char(AsciiOrder, i) = c

\* a < b for strings
RECURSIVE StrLess(_, _)
StrLess(a, b) ==
    IF b = "" THEN FALSE
    ELSE IF a = "" THEN TRUE
    ELSE IF Head(a) = Head(b) THEN StrLess(Tail(a), Tail(b))
    ELSE Ord(Head(a)) < Ord(Head(b))

StrLeq(a, b) == a = b \/ StrLess(a, b)

\* insertion of a <<date, count>> pair into a list sorted by date ascending
RECURSIVE InsertAsc(_, _)
InsertAsc(sorted, p) ==
    IF sorted = <<>> THEN <<p>>
    ELSE IF StrLeq(sorted[1][1], p[1]) THEN <<sorted[1]>> \o InsertAsc(Tail(sorted), p)
    ELSE <<p>> \o sorted

\* sorted(counter.items()): the keys of a counter are distinct
RECURSIVE SortAsc(_)
SortAsc(pairs) ==
    IF pairs = <<>> THEN <<>>
    ELSE InsertAsc(SortAsc(SubSeq(pairs, 1, Len(pairs) - 1)), pairs[Len(pairs)])

LastN(list, n) == SubSeq(list, IF Len(list) > n THEN Len(list) - n + 1 ELSE 1, Len(list))

\* the number of top clients, days and glass types a digest lists
TopClients == 15
TrendDays == 14
TopGlass == 20
DateLen == 10

\* f"{num/den:.1f}" for num, den >= 0: one decimal, ties to even
Fixed1(num, den) ==
    LET q      == (num * 10) \div den
        r      == (num * 10) % den
        tenths == IF 2 * r > den \/ (2 * r = den /\ q % 2 = 1) THEN q + 1 ELSE q
    IN  IntToStr(tenths \div 10) \o "." \o IntToStr(tenths % 10)

\* repr(dict(counter)) for string keys
RECURSIVE DictItems(_)
DictItems(c) ==
    IF c = <<>> THEN <<>>
    ELSE <<"'" \o c[1][1] \o "': " \o IntToStr(c[1][2])>> \o DictItems(Tail(c))

DictRepr(c) == "{" \o Join(DictItems(c), ", ") \o "}"

\* [f(r) for r in records], for the keys the counters count
RECURSIVE Statuses(_)
Statuses(rs) ==
    IF rs = <<>> THEN <<>> ELSE <<Get(rs[1], "status", "unknown")>> \o Statuses(Tail(rs))

RECURSIVE Factories(_)
Factories(rs) ==
    IF rs = <<>> THEN <<>> ELSE <<Get(rs[1], "factory", "unknown")>> \o Factories(Tail(rs))

RECURSIVE TotalLines(_)
TotalLines(rs) == IF rs = <<>> THEN 0 ELSE Get(rs[1], "lines", 0) + TotalLines(Tail(rs))

Digest(text, type, factory, t) ==
    [text |-> text, type |-> type, factory |-> factory, timestamp |-> [t |-> t, tz |-> "utc-naive"]]

\* 1. overall summary
OverallDigest(rs, t) ==
    <<Digest("[DIGEST] Overall: " \o IntToStr(Len(rs)) \o " extractions ingested | "
             \o "Status: " \o DictRepr(CountKeys(<<>>, Statuses(rs))) \o " | "
             \o "Factories: " \o DictRepr(CountKeys(<<>>, Factories(rs))) \o " | "
             \o "Total measurement lines: " \o IntToStr(TotalLines(rs)),
             "overall", "", t)>>

\* f"{name} ({count}{suffix})" for each pair
RECURSIVE CountItems(_, _)
CountItems(pairs, suffix) ==
    IF pairs = <<>> THEN <<>>
    ELSE <<pairs[1][1] \o " (" \o IntToStr(pairs[1][2]) \o suffix \o ")">>
         \o CountItems(Tail(pairs), suffix)

\* the clients of the records of one factory, in record order
ClientsOf(rs, factory) ==
    LET of == SelectSeq(rs, LAMBDA r : Get(r, "factory", "unknown") = factory
                                       /\ Get(r, "client", "") # "")
    IN  [i \in 1..Len(of) |-> of[i].client]

\* the factories that have a client, in order of first appearance
FactoriesWithClients(rs) ==
    LET c == CountKeys(<<>>, Factories(SelectSeq(rs, LAMBDA r : Get(r, "client", "") # "")))
    IN  [i \in 1..Len(c) |-> c[i][1]]

\* 2. top clients per factory: one digest per factory
RECURSIVE TopClientDigests(_, _, _)
TopClientDigests(rs, factories, t) ==
    IF factories = <<>> THEN <<>>
    ELSE LET clients == CountKeys(<<>>, ClientsOf(rs, factories[1])) IN
         <<Digest("[DIGEST] Top clients [" \o factories[1] \o "]: "
                  \o Join(CountItems(MostCommon(clients, TopClients), ""), ", ")
                  \o " | Total unique clients: " \o IntToStr(Len(clients)),
                  "top_clients", factories[1], t)>>
         \o TopClientDigests(rs, Tail(factories), t)

\* r.get("created_date", "")[:10]
DateOf(r) == FirstN(Get(r, "created_date", ""), DateLen)

\* the non-empty dates of the records, in record order
Dates(rs) ==
    LET dated == SelectSeq(rs, LAMBDA r : DateOf(r) # "")
    IN  [i \in 1..Len(dated) |-> DateOf(dated[i])]

RECURSIVE TrendItems(_)
TrendItems(pairs) ==
    IF pairs = <<>> THEN <<>>
    ELSE <<pairs[1][1] \o ": " \o IntToStr(pairs[1][2])>> \o TrendItems(Tail(pairs))

\* 3. daily volume
DailyDigest(rs, t) ==
    LET daily == CountKeys(<<>>, Dates(rs)) IN
    IF daily = <<>> THEN <<>>
    ELSE <<Digest("[DIGEST] Daily extraction volume (last 14d): "
                  \o Join(TrendItems(LastN(SortAsc(daily), TrendDays)), ", "),
                  "daily_volume", "", t)>>

\* every glass of every record, in order
RECURSIVE AllGlasses(_)
AllGlasses(rs) ==
    IF rs = <<>> THEN <<>> ELSE Get(rs[1], "glasses", <<>>) \o AllGlasses(Tail(rs))

\* 4. glass type frequency
GlassDigest(rs, t) ==
    LET glass_counter == CountKeys(<<>>, AllGlasses(rs)) IN
    IF glass_counter = <<>> THEN <<>>
    ELSE <<Digest("[DIGEST] Top glass types: "
                  \o Join(CountItems(MostCommon(glass_counter, TopGlass), ""), ", "),
                  "glass_types", "", t)>>

RECURSIVE SumConf(_)
SumConf(rs) == IF rs = <<>> THEN 0 ELSE rs[1].confidence + SumConf(Tail(rs))

\* 5. matching quality; the confidences are kept in percent
MatchingDigest(rs, t) ==
    LET total      == Len(rs)
        with_match == Len(SelectSeq(rs, LAMBDA r : Get(r, "matched_rows", 0) > 0))
        confs      == SelectSeq(rs, LAMBDA r : "confidence" \in r.has)
        avg_conf   == IF confs # <<>> THEN Fixed1(SumConf(confs), Len(confs)) ELSE "0.0"
    IN  <<Digest("[DIGEST] Matching quality: " \o IntToStr(with_match) \o "/"
                 \o IntToStr(total) \o " extractions matched ("
                 \o Fixed1(with_match * 100, total) \o "%) | Avg confidence: "
                 \o avg_conf \o "% (across " \o IntToStr(Len(confs))
                 \o " scored extractions)",
                 "matching_quality", "", t)>>

(* The date windows.  datetime.utcnow() is read once per run; the runs of the
   model happen on one day of May 2024, so week_ago and two_weeks_ago are in
   the same month. *)
TodayDay == 20
WeekDays == 7
TwoWeekDays == 14

\* strftime("%Y-%m-%d") of a day of May 2024
DateStr(day) == "2024-05-" \o (IF day < 10 THEN "0" ELSE "") \o IntToStr(day)

WeekAgo == DateStr(TodayDay - WeekDays)
TwoWeeksAgo == DateStr(TodayDay - TwoWeekDays)

\* the records with a truthy client
WithClient(rs) == SelectSeq(rs, LAMBDA r : Get(r, "client", "") # "")

\* the clients of the records that have one, in record order
ClientNames(rs) == [i \in 1..Len(WithClient(rs)) |-> WithClient(rs)[i].client]

\* date >= week_ago_str, as strings
ThisWeek(rs) == SelectSeq(rs, LAMBDA r : ~StrLess(DateOf(r), WeekAgo))

\* date < week_ago_str, as strings: the empty date is before every date
BeforeWeek(rs) == SelectSeq(rs, LAMBDA r : StrLess(DateOf(r), WeekAgo))

\* two_weeks_ago_str <= date < week_ago_str
PrevWeek(rs) ==
    SelectSeq(rs, LAMBDA r : StrLeq(TwoWeeksAgo, DateOf(r)) /\ StrLess(DateOf(r), WeekAgo))

\* 6. weekly client rankings
WeeklyDigest(rs, t) ==
    LET weekly_clients == CountKeys(<<>>, ClientNames(ThisWeek(rs))) IN
    IF weekly_clients = <<>> THEN <<>>
    ELSE <<Digest("[DIGEST] This week's top clients (since " \o WeekAgo \o "): "
                  \o Join(CountItems(MostCommon(weekly_clients, TopClients), ""), ", ")
                  \o " | Total extractions this week: " \o IntToStr(Len(ThisWeek(rs))),
                  "weekly_clients", "", t)>>

\* the keys of a counter, as a set
Keys(c) == {c[i][1] : i \in 1..Len(c)}

\* counter.get(k, 0)
CountOf(c, k) == IF k \in Keys(c) THEN (CHOOSE p \in {c[i] : i \in 1..Len(c)} : p[1] = k)[2] ELSE 0

\* emerging: the clients counted this week that no earlier record names
Emerging(rs) ==
    LET old_clients == Keys(CountKeys(<<>>, ClientNames(BeforeWeek(rs)))) IN
    SelectSeq(CountKeys(<<>>, ClientNames(ThisWeek(rs))), LAMBDA p : p[1] \notin old_clients)

\* 7. new clients
NewClientsDigest(rs, t) ==
    IF Emerging(rs) = <<>> THEN <<>>
    ELSE <<Digest("[INTELLIGENCE] New clients this week (not seen before " \o WeekAgo \o "): "
                  \o Join(CountItems(MostCommon(Emerging(rs), TopClients), " orders"), ", ")
                  \o " | " \o IntToStr(Len(Emerging(rs))) \o " new clients total",
                  "new_clients", "", t)>>

\* the records section 8 counts: a client and a date
Counted(rs) == SelectSeq(WithClient(rs), LAMBDA r : DateOf(r) # "")

PrevWeekClients(rs) == CountKeys(<<>>, ClientNames(PrevWeek(Counted(rs))))
CurrWeekClients(rs) == CountKeys(<<>>, ClientNames(ThisWeek(Counted(rs))))

\* all_clients_both_weeks: the union of the two key sets
AnomalyClients(rs) == Keys(PrevWeekClients(rs)) \cup Keys(CurrWeekClients(rs))

\* the smallest previous count that is compared, and the length of a list
MinPrev == 3
TopAnomalies == 10

\* (a variant with two independent tests, the drop test reversed)
AnomaliesIndependent(prev, curr) ==
    (IF prev >= MinPrev /\ curr >= prev * 2 THEN {"spike"} ELSE {})
    \cup (IF prev >= MinPrev /\ 10 * curr >= 3 * prev THEN {"drop"} ELSE {})

\* the if/elif of the loop; curr <= prev * 0.3 is 10 * curr <= 3 * prev
Anomalies(prev, curr) ==
    IF prev >= MinPrev /\ curr >= prev * 2 THEN {"spike"}
    ELSE IF prev >= MinPrev /\ 10 * curr <= 3 * prev THEN {"drop"}
    ELSE {}

\* the (client, prev, curr) triples of one kind, in the enumeration order of
\* the client set
Flagged(rs, order, kind) ==
    LET triples == [i \in 1..Len(order) |->
                       <<order[i], CountOf(PrevWeekClients(rs), order[i]),
                         CountOf(CurrWeekClients(rs), order[i])>>]
    IN  SelectSeq(triples, LAMBDA x : kind \in Anomalies(x[2], x[3]))

\* spikes.sort(key=lambda x: x[2], reverse=True)
Spikes(rs, order) ==
    LET found == Flagged(rs, order, "spike") IN
    Items(SortDesc([i \in 1..Len(found) |-> <<found[i][3], found[i]>>]))

\* drops.sort(key=lambda x: x[1], reverse=True)
Drops(rs, order) ==
    LET found == Flagged(rs, order, "drop") IN
    Items(SortDesc([i \in 1..Len(found) |-> <<found[i][2], found[i]>>]))

\* f"{num/den:.0f}" for num, den >= 0: no decimal, ties to even
Fixed0(num, den) ==
    LET q == num \div den
        r == num % den
    IN  IntToStr(IF 2 * r > den \/ (2 * r = den /\ q % 2 = 1) THEN q + 1 ELSE q)

\* f"{c} ({p}->{cu}, +{(cu/p-1)*100:.0f}%)"; -> stands for the arrow U+2192
RECURSIVE SpikeItems(_)
SpikeItems(triples) ==
    IF triples = <<>> THEN <<>>
    ELSE LET x == triples[1] IN
         <<x[1] \o " (" \o IntToStr(x[2]) \o "->" \o IntToStr(x[3]) \o ", +"
           \o Fixed0(100 * (x[3] - x[2]), x[2]) \o "%)">> \o SpikeItems(Tail(triples))

\* f"{c} ({p}->{cu}, -{(1-cu/p)*100:.0f}%)"
RECURSIVE DropItems(_)
DropItems(triples) ==
    IF triples = <<>> THEN <<>>
    ELSE LET x == triples[1] IN
         <<x[1] \o " (" \o IntToStr(x[2]) \o "->" \o IntToStr(x[3]) \o ", -"
           \o Fixed0(100 * (x[2] - x[3]), x[2]) \o "%)">> \o DropItems(Tail(triples))

\* 8. week-over-week spikes and drops
AnomalyDigests(rs, order, t) ==
    (IF Spikes(rs, order) = <<>> THEN <<>>
     ELSE <<Digest("[INTELLIGENCE] Volume spikes (2x+ week-over-week): "
                   \o Join(SpikeItems(FirstN(Spikes(rs, order), TopAnomalies)), ", "),
                   "volume_spikes", "", t)>>)
    \o (IF Drops(rs, order) = <<>> THEN <<>>
        ELSE <<Digest("[INTELLIGENCE] Volume drops (70%+ decline week-over-week): "
                      \o Join(DropItems(FirstN(Drops(rs, order), TopAnomalies)), ", "),
                      "volume_drops", "", t)>>)

\* the glasses of the records, in order
GlassesOf(rs) == AllGlasses(rs)

\* emerging_glass: the glasses counted this week that no earlier record has
EmergingGlass(rs) ==
    LET old_glasses == Keys(CountKeys(<<>>, GlassesOf(BeforeWeek(rs)))) IN
    SelectSeq(CountKeys(<<>>, GlassesOf(ThisWeek(rs))), LAMBDA p : p[1] \notin old_glasses)

\* 9. new glass types
NewGlassDigest(rs, t) ==
    IF EmergingGlass(rs) = <<>> THEN <<>>
    ELSE <<Digest("[INTELLIGENCE] New glass types this week (not seen before): "
                  \o Join(CountItems(MostCommon(EmergingGlass(rs), TopAnomalies), "x"), ", "),
                  "new_glass_types", "", t)>>

\* client_glasses_old[client] and client_glasses_new[client]
GlassSet(rs, client) ==
    Keys(CountKeys(<<>>, GlassesOf(SelectSeq(rs, LAMBDA r : Get(r, "client", "") = client))))

\* diversifying: (client, new_types) for the clients of this week, in order of
\* first appearance, that an earlier record names and that have a new type
Diversifying(rs) ==
    LET new_clients == CountKeys(<<>>, ClientNames(ThisWeek(rs)))
        old_clients == Keys(CountKeys(<<>>, ClientNames(BeforeWeek(rs))))
        pairs       == [i \in 1..Len(new_clients) |->
                           <<new_clients[i][1],
                             GlassSet(ThisWeek(rs), new_clients[i][1])
                                 \ GlassSet(BeforeWeek(rs), new_clients[i][1])>>]
    IN  SelectSeq(pairs, LAMBDA p : p[1] \in old_clients /\ p[2] # {})

\* the glasses some diversifying client has as a new type
NewTypes(rs) == UNION {Diversifying(rs)[i][2] : i \in 1..Len(Diversifying(rs))}

\* the number of new types a client is listed with
ShownTypes == 3

\* f"{c} (+{', '.join(list(g)[:3])})"; order enumerates the glass sets
RECURSIVE DiversifyingItems(_, _)
DiversifyingItems(pairs, order) ==
    IF pairs = <<>> THEN <<>>
    ELSE <<pairs[1][1] \o " (+"
           \o Join(FirstN(SelectSeq(order, LAMBDA g : g \in pairs[1][2]), ShownTypes), ", ")
           \o ")">> \o DiversifyingItems(Tail(pairs), order)

\* 10. product diversification
DiversificationDigest(rs, order, t) ==
    LET found  == Diversifying(rs)
        sorted == Items(SortDesc([i \in 1..Len(found) |->
                                     <<Cardinality(found[i][2]), found[i]>>]))
    IN  IF found = <<>> THEN <<>>
        ELSE <<Digest("[INTELLIGENCE] Clients ordering new product types this week: "
                      \o Join(DiversifyingItems(FirstN(sorted, TopAnomalies), order), ", ")
                      \o " | " \o IntToStr(Len(found)) \o " clients diversifying",
                      "product_diversification", "", t)>>

\* conf < 0.7, the confidences being kept in percent
LowConfidence == 70

\* 11. low-confidence hotspots
LowConfidenceDigest(rs, t) ==
    LET low == SelectSeq(rs, LAMBDA r : "confidence" \in r.has /\ r.confidence < LowConfidence)
        low_conf_clients == CountKeys(<<>>, ClientNames(low))
    IN  IF low_conf_clients = <<>> THEN <<>>
        ELSE <<Digest("[INTELLIGENCE] Clients with most low-confidence matches (<70%): "
                      \o Join(CountItems(MostCommon(low_conf_clients, TopAnomalies),
                                         " low-conf"), ", ")
                      \o " | These may need synonym additions on Snake",
                      "low_confidence_hotspots", "", t)>>

PrevFactory(rs) == CountKeys(<<>>, Factories(PrevWeek(rs)))
CurrFactory(rs) == CountKeys(<<>>, Factories(ThisWeek(rs)))

\* sum(counter.values()) or 1
RECURSIVE Total(_)
Total(c) == IF c = <<>> THEN 0 ELSE c[1][2] + Total(Tail(c))
\* (a variant without the default of 1)
TotalOrZero(c) == Total(c)

TotalOrOne(c) == IF Total(c) = 0 THEN 1 ELSE Total(c)

\* The shares are doubles: count / total * 100.  For the totals up to 22, the
\* largest window of the stores below, these are the (count, total) whose
\* double lies above the exact quotient, and those whose double lies below it.
RoundedAbove ==
    {<<5, 6>>, <<5, 7>>, <<5, 9>>, <<7, 9>>, <<1, 11>>, <<2, 11>>, <<4, 11>>, <<8, 11>>,
     <<9, 11>>, <<5, 12>>, <<7, 12>>, <<10, 12>>, <<1, 13>>, <<2, 13>>, <<4, 13>>,
     <<5, 13>>, <<7, 13>>, <<8, 13>>, <<10, 13>>, <<5, 14>>, <<9, 14>>, <<10, 14>>,
     <<13, 14>>, <<1, 15>>, <<2, 15>>, <<4, 15>>, <<8, 15>>, <<13, 15>>, <<3, 17>>,
     <<5, 17>>, <<6, 17>>, <<9, 17>>, <<10, 17>>, <<12, 17>>, <<5, 18>>, <<7, 18>>,
     <<10, 18>>, <<11, 18>>, <<14, 18>>, <<15, 18>>, <<11, 19>>, <<11, 20>>, <<11, 21>>,
     <<13, 21>>, <<15, 21>>, <<19, 21>>, <<1, 22>>, <<2, 22>>, <<4, 22>>, <<8, 22>>,
     <<9, 22>>, <<13, 22>>, <<16, 22>>, <<18, 22>>}

RoundedBelow ==
    {<<1, 3>>, <<2, 3>>, <<1, 6>>, <<2, 6>>, <<4, 6>>, <<1, 7>>, <<2, 7>>, <<3, 7>>,
     <<4, 7>>, <<6, 7>>, <<1, 9>>, <<2, 9>>, <<3, 9>>, <<4, 9>>, <<6, 9>>, <<8, 9>>,
     <<3, 11>>, <<5, 11>>, <<6, 11>>, <<7, 11>>, <<10, 11>>, <<1, 12>>, <<2, 12>>,
     <<4, 12>>, <<8, 12>>, <<11, 12>>, <<3, 13>>, <<6, 13>>, <<9, 13>>, <<11, 13>>,
     <<12, 13>>, <<1, 14>>, <<2, 14>>, <<3, 14>>, <<4, 14>>, <<6, 14>>, <<8, 14>>,
     <<11, 14>>, <<12, 14>>, <<5, 15>>, <<7, 15>>, <<10, 15>>, <<11, 15>>, <<14, 15>>,
     <<1, 17>>, <<2, 17>>, <<4, 17>>, <<7, 17>>, <<8, 17>>, <<11, 17>>, <<13, 17>>,
     <<14, 17>>, <<15, 17>>, <<16, 17>>, <<1, 18>>, <<2, 18>>, <<3, 18>>, <<4, 18>>,
     <<6, 18>>, <<8, 18>>, <<12, 18>>, <<13, 18>>, <<16, 18>>, <<17, 18>>, <<1, 19>>,
     <<2, 19>>, <<3, 19>>, <<4, 19>>, <<5, 19>>, <<6, 19>>, <<7, 19>>, <<8, 19>>,
     <<9, 19>>, <<10, 19>>, <<12, 19>>, <<13, 19>>, <<14, 19>>, <<15, 19>>, <<16, 19>>,
     <<17, 19>>, <<18, 19>>, <<1, 21>>, <<2, 21>>, <<3, 21>>, <<4, 21>>, <<5, 21>>,
     <<6, 21>>, <<7, 21>>, <<8, 21>>, <<9, 21>>, <<10, 21>>, <<12, 21>>, <<14, 21>>,
     <<16, 21>>, <<17, 21>>, <<18, 21>>, <<20, 21>>, <<3, 22>>, <<5, 22>>, <<6, 22>>,
     <<7, 22>>, <<10, 22>>, <<12, 22>>, <<14, 22>>, <<15, 22>>, <<17, 22>>, <<19, 22>>,
     <<20, 22>>, <<21, 22>>}

\* the direction in which the double count / total * 100 misses the quotient
ShareError(count, total) ==
    IF <<count, total>> \in RoundedAbove THEN 1
    ELSE IF <<count, total>> \in RoundedBelow THEN -1 ELSE 0

\* the share change that is reported, in points
ShiftPoints == 5

\* abs(curr_pct - prev_pct) as a fraction over prev_total * curr_total
ShiftSize(rs, f) ==
    LET d == CountOf(CurrFactory(rs), f) * TotalOrOne(PrevFactory(rs))
             - CountOf(PrevFactory(rs), f) * TotalOrOne(CurrFactory(rs))
    IN  IF d < 0 THEN -d ELSE d

\* the sign of the rounding error of abs(curr_pct - prev_pct): the errors of
\* the two shares, taken in the direction of the change
ShiftError(rs, f) ==
    LET up == CountOf(CurrFactory(rs), f) * TotalOrOne(PrevFactory(rs))
                  >= CountOf(PrevFactory(rs), f) * TotalOrOne(CurrFactory(rs))
        e  == ShareError(CountOf(CurrFactory(rs), f), TotalOrOne(CurrFactory(rs)))
              - ShareError(CountOf(PrevFactory(rs), f), TotalOrOne(PrevFactory(rs)))
    IN  IF up THEN e ELSE -e

\* (a variant that compares the exact shares)
ExceedsExactly(rs, f) ==
    100 * ShiftSize(rs, f)
        > ShiftPoints * TotalOrOne(PrevFactory(rs)) * TotalOrOne(CurrFactory(rs))

\* abs(curr_pct - prev_pct) > 5 on the doubles: the exact change is more than
\* 5 points, or it is 5 points and the rounding error is positive
Exceeds(rs, f) ==
    LET bound == ShiftPoints * TotalOrOne(PrevFactory(rs)) * TotalOrOne(CurrFactory(rs))
    IN  \/ 100 * ShiftSize(rs, f) > bound
        \/ 100 * ShiftSize(rs, f) = bound /\ ShiftError(rs, f) > 0

\* the factories whose share moved by more than 5 points
ShiftFactories(rs) ==
    {f \in Keys(PrevFactory(rs)) \cup Keys(CurrFactory(rs)) : Exceeds(rs, f)}

\* f"{f} ({p:.0f}%->{c:.0f}%)"
RECURSIVE ShiftItems(_, _)
ShiftItems(rs, fs) ==
    IF fs = <<>> THEN <<>>
    ELSE <<fs[1] \o " ("
           \o Fixed0(100 * CountOf(PrevFactory(rs), fs[1]), TotalOrOne(PrevFactory(rs)))
           \o "%->"
           \o Fixed0(100 * CountOf(CurrFactory(rs), fs[1]), TotalOrOne(CurrFactory(rs)))
           \o "%)">> \o ShiftItems(rs, Tail(fs))

\* 12. factory share shifts; order enumerates the factory set
FactoryShiftDigest(rs, order, t) ==
    LET shifts == SelectSeq(order, LAMBDA f : f \in ShiftFactories(rs))
        sorted == Items(SortDesc([i \in 1..Len(shifts) |-> <<ShiftSize(rs, shifts[i]), shifts[i]>>]))
    IN  IF shifts = <<>> THEN <<>>
        ELSE <<Digest("[INTELLIGENCE] Factory volume share shifts (>5pt change): "
                      \o Join(ShiftItems(rs, sorted), ", "),
                      "factory_shifts", "", t)>>

\* the clients section 8 flags
FlaggedClients(rs) ==
    {c \in AnomalyClients(rs) :
        Anomalies(CountOf(PrevWeekClients(rs), c), CountOf(CurrWeekClients(rs), c)) # {}}

\* the numbers a run over the records rs divides by: the number of records,
\* the number of confidences when there is one, the previous count of every
\* spike and drop, the two window totals when a factory is counted
Denominators(rs) ==
    {Len(rs)}
    \cup (IF SelectSeq(rs, LAMBDA r : "confidence" \in r.has) = <<>> THEN {}
          ELSE {Len(SelectSeq(rs, LAMBDA r : "confidence" \in r.has))})
    \cup {CountOf(PrevWeekClients(rs), c) : c \in FlaggedClients(rs)}
    \cup (IF Keys(PrevFactory(rs)) \cup Keys(CurrFactory(rs)) = {} THEN {}
          ELSE {TotalOrOne(PrevFactory(rs)), TotalOrOne(CurrFactory(rs))})

\* a division of the run raises ZeroDivisionError
DivisionRaises(rs) == rs # <<>> /\ 0 \in Denominators(rs)

\* the enumeration orders of the sets a run iterates over: the orders in which
\* the flagged clients, the new glass types and the shifted factories come
HashOrders(rs) ==
    {[clients |-> c, glasses |-> g, factories |-> f] :
        c \in Orderings(FlaggedClients(rs)), g \in Orderings(NewTypes(rs)),
        f \in Orderings(ShiftFactories(rs))}

\* the digests of one run over the decoded records rs, in the order they are appended
DigestsOf(rs, t, h) ==
    OverallDigest(rs, t)
    \o TopClientDigests(rs, FactoriesWithClients(rs), t)
    \o DailyDigest(rs, t)
    \o GlassDigest(rs, t)
    \o MatchingDigest(rs, t)
    \o WeeklyDigest(rs, t)
    \o NewClientsDigest(rs, t)
    \o AnomalyDigests(rs, h.clients, t)
    \o NewGlassDigest(rs, t)
    \o DiversificationDigest(rs, h.glasses, t)
    \o LowConfidenceDigest(rs, t)
    \o FactoryShiftDigest(rs, h.factories, t)

----------------------------------------------------------------------------
(* Search: src/api/memory.py, search_memories *)

RECURSIVE LowerAll(_)
LowerAll(list) ==
    IF list = <<>> THEN <<>> ELSE <<Lower(list[1])>> \o LowerAll(Tail(list))

\* (a variant where a token scores on a tag only when it is the entry's only tag)
RECURSIVE ScoreSingleTag(_, _)
ScoreSingleTag(m, tokens) ==
    IF tokens = <<>> THEN 0
    ELSE (IF Contains(tokens[1], Lower(m.text)) THEN 1 ELSE 0)
         + (IF LowerAll(m.tags) = <<tokens[1]>> THEN 2 ELSE 0)
         + ScoreSingleTag(m, Tail(tokens))

\* the score of one memory for the lowercased tokens
RECURSIVE Score(_, _)
Score(m, tokens) ==
    IF tokens = <<>> THEN 0
    ELSE (IF Contains(tokens[1], Lower(m.text)) THEN 1 ELSE 0)
         + (IF InSeq(tokens[1], LowerAll(m.tags)) THEN 2 ELSE 0)
         + Score(m, Tail(tokens))

\* search_memories(query, limit) over the loaded memories
SearchResult(memories, query, limit) ==
    LET tokens == SplitWords(Lower(query))
        hits   == SelectSeq(memories, LAMBDA m : Score(m, tokens) > 0)
        scored == [i \in 1..Len(hits) |-> <<Score(hits[i], tokens), hits[i]>>]
    IN  SliceTo(Items(SortDesc(scored)), limit)

\* get_memories_by_tag(tag, limit) over the loaded memories
TagResult(memories, tag, limit) ==
    SliceLast(SelectSeq(memories, LAMBDA m : InSeq(tag, m.tags)), limit)

----------------------------------------------------------------------------
(* Sequential calls.  Each call reads the clock once; ret records the call. *)

\* the inputs the calls are made with
AddInputs ==
    {[text |-> "Bob called", source |-> "email", tags |-> <<"Note">>],
     [text |-> "ext_id=42 | [FA] | client=Bob (tier 1, exact) | 2 line(s)",
      source |-> "", tags |-> <<"extraction">>]}
ForgetQueries == {"BOB", "DUPONT", "zzz"}
SearchQueries == {"bob note", "Dupont"}
SearchLimit == 1

Outcome(op, arg, raised, value, writes) ==
    [op |-> op, arg |-> arg, raised |-> raised, value |-> value, writes |-> writes]

NoCall == Outcome("none", "", FALSE, "", 0)

\* what a call that raised returns to its caller: nothing
Raised(op, arg) == Outcome(op, arg, TRUE, "", 0)

Tick == now' = now + 1

\* (a variant that puts the new entry first)
AppendedFirst(memories, entry) == <<entry>> \o memories

\* memories.append(entry)
Appended(memories, entry) == Append(memories, entry)

\* add_memory(text, source, tags)
AddMemory(inp) ==
    /\ IF LoadRaises(memFile)
       THEN /\ ret' = Raised("add_memory", inp)
            /\ UNCHANGED memFile
       ELSE LET entry == MemoryEntry(inp.text, inp.source, inp.tags, now) IN
            /\ memFile' = Stored(Appended(Load(memFile), entry))
            /\ ret' = Outcome("add_memory", inp, FALSE, entry, 1)
    /\ Tick
    /\ UNCHANGED <<convFile, digFile, added, pc, loc, log>>

\* (a variant that compares without lowering)
RemainingCaseSensitive(memories, query) ==
    SelectSeq(memories, LAMBDA m : ~Contains(query, m.text))

\* [m for m in memories if query.lower() not in m["text"].lower()]
Remaining(memories, query) ==
    SelectSeq(memories, LAMBDA m : ~Contains(Lower(query), Lower(m.text)))

\* the number of save_memories calls forget makes
ForgetWrites(forgotten) == IF forgotten > 0 THEN 1 ELSE 0

\* forget(query)
Forget(query) ==
    /\ IF LoadRaises(memFile)
       THEN /\ ret' = Raised("forget", query)
            /\ UNCHANGED memFile
       ELSE LET memories  == Load(memFile)
                remaining == Remaining(memories, query)
                forgotten == Len(memories) - Len(remaining)
            IN  /\ memFile' = IF ForgetWrites(forgotten) > 0 THEN Stored(remaining)
                              ELSE memFile
                /\ ret' = Outcome("forget", query, FALSE, forgotten, ForgetWrites(forgotten))
    /\ Tick
    /\ UNCHANGED <<convFile, digFile, added, pc, loc, log>>

\* (a variant that saves once per new entry, as a loop of add_memory would)
IngestWritesPerEntry(new_entries) == Len(new_entries)

\* the number of save_memories calls ingest_extractions makes for new_entries
IngestWrites(new_entries) == IF new_entries # <<>> THEN 1 ELSE 0

\* ingest_extractions(): data is what the fetch returned
IngestExtractions(data, orders) ==
    /\ IF LoadRaises(memFile)
       THEN /\ ret' = Raised("ingest_extractions", data)
            /\ UNCHANGED memFile
       ELSE LET existing    == Load(memFile)
                ids         == ExistingIds(existing)
                new_entries == NewEntries(data, orders, ids, now)
            IN  /\ memFile' = IF IngestWrites(new_entries) > 0
                              THEN Stored(existing \o new_entries) ELSE memFile
                /\ ret' = Outcome("ingest_extractions", data, FALSE,
                                  [ingested |-> Len(new_entries),
                                   skipped |-> Skipped(data, ids),
                                   total_fetched |-> Len(data)],
                                  IngestWrites(new_entries))
    /\ Tick
    /\ UNCHANGED <<convFile, digFile, added, pc, loc, log>>

\* (a variant that keeps the digests of earlier runs)
PersistedMerged(file, digests) ==
    IF digests = <<>> THEN file ELSE Stored(Load(file) \o digests)

\* what compute_digests leaves in digests.json when it returns digests
Persisted(file, digests) == IF digests = <<>> THEN file ELSE Stored(digests)

\* compute_digests(): returns before save_digests when there is no extraction
ComputeDigests ==
    /\ IF \/ LoadRaises(memFile)
          \/ DecodeRaises(ExtractionsOf(Load(memFile)))
          \/ DivisionRaises(DecodeAll(ExtractionsOf(Load(memFile))))
       THEN /\ ret' = Raised("compute_digests", "")
            /\ UNCHANGED digFile
       ELSE LET extractions == ExtractionsOf(Load(memFile))
                records     == DecodeAll(extractions)
            IN  \E h \in HashOrders(records) :
                    LET digests == IF extractions = <<>> THEN <<>>
                                   ELSE DigestsOf(records, now, h)
                    IN  /\ digFile' = Persisted(digFile, digests)
                        /\ ret' = Outcome("compute_digests", h, FALSE, digests, 0)
    /\ Tick
    /\ UNCHANGED <<memFile, convFile, added, pc, loc, log>>

\* load_memories()
LoadMemories ==
    /\ ret' = IF LoadRaises(memFile) THEN Raised("load_memories", "")
              ELSE Outcome("load_memories", "", FALSE, Load(memFile), 0)
    /\ Tick
    /\ UNCHANGED <<memFile, convFile, digFile, added, pc, loc, log>>

\* load_digests()
LoadDigests ==
    /\ ret' = IF LoadRaises(digFile) THEN Raised("load_digests", "")
              ELSE Outcome("load_digests", "", FALSE, Load(digFile), 0)
    /\ Tick
    /\ UNCHANGED <<memFile, convFile, digFile, added, pc, loc, log>>

\* search_memories(query, limit)
SearchMemories(query, limit) ==
    LET arg == [query |-> query, limit |-> limit] IN
    /\ ret' = IF LoadRaises(memFile) THEN Raised("search_memories", arg)
              ELSE Outcome("search_memories", arg, FALSE,
                           SearchResult(Load(memFile), query, limit), 0)
    /\ Tick
    /\ UNCHANGED <<memFile, convFile, digFile, added, pc, loc, log>>

\* get_memories_by_tag(tag, limit)
GetMemoriesByTag(tag, limit) ==
    LET arg == [tag |-> tag, limit |-> limit] IN
    /\ ret' = IF LoadRaises(memFile) THEN Raised("get_memories_by_tag", arg)
              ELSE Outcome("get_memories_by_tag", arg, FALSE,
                           TagResult(Load(memFile), tag, limit), 0)
    /\ Tick
    /\ UNCHANGED <<memFile, convFile, digFile, added, pc, loc, log>>

\* the number of conversation entries save_conversation keeps
ConvCap == 200

\* what save_conversation and the chat endpoint are called with
ConvInputs == {<<"hi", "hello">>, <<"status?", "all good">>, <<"bye", "bye">>}

ConversationEntry(user_msg, assistant_msg, t) ==
    [user |-> user_msg, assistant |-> assistant_msg, timestamp |-> [t |-> t, tz |-> "local"]]

\* (a variant that keeps the oldest entries)
CappedOldest(convos) == IF Len(convos) > ConvCap THEN FirstN(convos, ConvCap) ELSE convos

\* convos[-200:] when there are more than 200
Capped(convos) == IF Len(convos) > ConvCap THEN LastN(convos, ConvCap) ELSE convos

\* save_conversation(user_msg, assistant_msg)
SaveConversation(msgs) ==
    /\ IF LoadRaises(convFile)
       THEN /\ ret' = Raised("save_conversation", msgs)
            /\ UNCHANGED <<convFile, added>>
       ELSE LET entry == ConversationEntry(msgs[1], msgs[2], now) IN
            /\ convFile' = Stored(Capped(Append(Load(convFile), entry)))
            /\ added' = Append(added, entry)
            /\ ret' = Outcome("save_conversation", msgs, FALSE, entry, 0)
    /\ Tick
    /\ UNCHANGED <<memFile, digFile, pc, loc, log>>

\* load_conversations()
LoadConversations ==
    /\ ret' = IF LoadRaises(convFile) THEN Raised("load_conversations", "")
              ELSE Outcome("load_conversations", "", FALSE, Load(convFile), 0)
    /\ Tick
    /\ UNCHANGED <<memFile, convFile, digFile, added, pc, loc, log>>

NoCallers == [p \in {} |-> ""]

Init ==
    /\ memFile = Missing
    /\ convFile = Missing
    /\ digFile = Missing
    /\ now = 0
    /\ ret = NoCall
    /\ added = <<>>
    /\ pc = NoCallers
    /\ loc = NoCallers
    /\ log = NoCallers

Next ==
    \/ \E inp \in AddInputs : now < MaxCalls /\ AddMemory(inp)
    \/ \E query \in ForgetQueries : now < MaxCalls /\ Forget(query)
    \/ \E data \in Fetches : \E orders \in GlassOrders(data) :
           now < MaxCalls /\ IngestExtractions(data, orders)
    \/ now < MaxCalls /\ ComputeDigests
    \/ now < MaxCalls /\ LoadMemories
    \/ now < MaxCalls /\ LoadDigests
    \/ \E query \in SearchQueries : now < MaxCalls /\ SearchMemories(query, SearchLimit)

Spec == Init /\ [][Next]_vars

\* the digest cycle: memories come and go, digests are recomputed and read
NextDigest ==
    \/ \E inp \in AddInputs : now < MaxDigestCalls /\ AddMemory(inp)
    \/ \E query \in ForgetQueries : now < MaxDigestCalls /\ Forget(query)
    \/ \E orders \in GlassOrders(<<Ext2>>) :
           now < MaxDigestCalls /\ IngestExtractions(<<Ext2>>, orders)
    \/ now < MaxDigestCalls /\ ComputeDigests
    \/ now < MaxDigestCalls /\ LoadDigests

SpecDigest == Init /\ [][NextDigest]_vars

(* Stores that are missing or malformed when the service starts *)
InitFail ==
    /\ memFile \in {Missing, Corrupt}
    /\ convFile \in {Missing, Corrupt}
    /\ digFile \in {Missing, Corrupt}
    /\ now = 0
    /\ ret = NoCall
    /\ added = <<>>
    /\ pc = NoCallers
    /\ loc = NoCallers
    /\ log = NoCallers

FailInput == CHOOSE inp \in AddInputs : inp.tags = <<"extraction">>

NextFail ==
    \/ now < MaxFailCalls /\ AddMemory(FailInput)
    \/ now < MaxFailCalls /\ Forget("BOB")
    \/ \E orders \in GlassOrders(<<Ext1>>) :
           now < MaxFailCalls /\ IngestExtractions(<<Ext1>>, orders)
    \/ now < MaxFailCalls /\ ComputeDigests
    \/ now < MaxFailCalls /\ LoadMemories
    \/ now < MaxFailCalls /\ LoadDigests
    \/ now < MaxFailCalls /\ SearchMemories("bob", SearchLimit)
    \/ \E msgs \in ConvInputs : now < MaxFailCalls /\ SaveConversation(msgs)
    \/ now < MaxFailCalls /\ LoadConversations

SpecFail == InitFail /\ [][NextFail]_vars

(* The conversation log, started empty, one short of the cap, or at the cap *)
\* the entries n earlier save_conversation calls left, the last at clock -1
EarlierConversations(n) ==
    [i \in 1..n |-> ConversationEntry("earlier", "reply", i - n - 1)]

InitConv ==
    /\ \E n \in {0, ConvCap - 1, ConvCap} :
           /\ convFile = (IF n = 0 THEN Missing ELSE Stored(EarlierConversations(n)))
           /\ added = EarlierConversations(n)
    /\ memFile = Missing
    /\ digFile = Missing
    /\ now = 0
    /\ ret = NoCall
    /\ pc = NoCallers
    /\ loc = NoCallers
    /\ log = NoCallers

NextConv ==
    \/ \E msgs \in ConvInputs : now < MaxConvCalls /\ SaveConversation(msgs)
    \/ now < MaxConvCalls /\ LoadConversations

SpecConv == InitConv /\ [][NextConv]_vars

(* Retrieval over a store that earlier add_memory calls filled *)
\* the longest store the retrieval runs start from
MaxStore == 3

\* what the earlier add_memory calls were made with
StoreInputs ==
    {[text |-> "Bob called", source |-> "email", tags |-> <<"Note">>],
     [text |-> "note for bob", source |-> "", tags |-> <<>>],
     [text |-> "glass order", source |-> "", tags |-> <<"Bob", "note">>]}

\* the store the calls inputs[1], inputs[2], ... left, the last at clock -1
StoreOf(inputs) ==
    [i \in 1..Len(inputs) |->
        MemoryEntry(inputs[i].text, inputs[i].source, inputs[i].tags, i - Len(inputs) - 1)]

RetrievalQueries == {"bob note", "Bob  BOB", "glass", "zzz"}
RetrievalTags == {"note", "Note", "Bob"}
\* the limit query parameter is any integer
RetrievalLimits == (-1)..MaxStore

InitSearch ==
    /\ \E inputs \in SeqsUpTo(StoreInputs, MaxStore) :
           memFile = (IF inputs = <<>> THEN Missing ELSE Stored(StoreOf(inputs)))
    /\ convFile = Missing
    /\ digFile = Missing
    /\ now = 0
    /\ ret = NoCall
    /\ added = <<>>
    /\ pc = NoCallers
    /\ loc = NoCallers
    /\ log = NoCallers

NextSearch ==
    \/ \E query \in RetrievalQueries : \E limit \in RetrievalLimits :
           now < MaxSearchCalls /\ SearchMemories(query, limit)
    \/ \E tag \in RetrievalTags : \E limit \in RetrievalLimits :
           now < MaxSearchCalls /\ GetMemoriesByTag(tag, limit)

SpecSearch == InitSearch /\ [][NextSearch]_vars

(* Decoding: one extraction memory whose text is put together from segments *)
\* the number of segments of a text
MaxSegments == 2

DecodeSegments ==
    {"[FA]", "status=verified", "client=Bob (tier 1, exact)", "3 line(s)",
     "abc line(s)", "line(s)", "conf=55%", "conf=high%", "x row(s) matched",
     "foo=bar", ""}

\* a text with a factory marker and a status in one segment
MarkerStatusText ==
    "ext_id=42 | [FactoryA] status=verified | client=Dupont (tier 1, exact) | 3 line(s) | glass: Planilux, Securit | conf=92% | created=2024-05-01"

DecodeTexts ==
    {Join(segments, " | ") : segments \in SeqsUpTo(DecodeSegments, MaxSegments)}
    \cup {MarkerStatusText}

InitDecode ==
    /\ \E text \in DecodeTexts :
           memFile = Stored(<<MemoryEntry(text, "", <<"extraction">>, -1)>>)
    /\ convFile = Missing
    /\ digFile = Missing
    /\ now = 0
    /\ ret = NoCall
    /\ added = <<>>
    /\ pc = NoCallers
    /\ loc = NoCallers
    /\ log = NoCallers

NextDecode ==
    \/ now < MaxDecodeCalls /\ ComputeDigests
    \/ now < MaxDecodeCalls /\ LoadDigests

SpecDecode == InitDecode /\ [][NextDecode]_vars

(* Week-over-week digests: a store of extraction memories of two clients,
   dated before, inside and after the two windows *)
\* the number of calls of a run
MaxWeekCalls == 2

\* the days of May 2024 the records are created on: before both windows, in
\* the previous week, in the current week, after today; 0 is no created_at
SampleDays == [old |-> 1, prev |-> 8, curr |-> 15, future |-> 25, none |-> 0]
OldDay == SampleDays.old
PrevDay == SampleDays.prev
CurrDay == SampleDays.curr
FutureDay == SampleDays.future
NoDay == SampleDays.none

\* an extraction of a client created on a day, as the fetch returns it
WeekExt(id, client, glass, factory, day) ==
    [id |-> StrId(id), factory_name |-> factory, factory_id |-> "1", tenant |-> "",
     status |-> "verified", nom |-> client, numero |-> "", tier |-> "1",
     method |-> "exact", rows |-> 1, glasses |-> {glass},
     title |-> "", matched |-> 1, conf |-> 92,
     created_at |-> IF day = NoDay THEN "" ELSE DateStr(day) \o "T09:00:00Z"]

\* the memories ingest stored for the extractions of a client on the days
RECURSIVE WeekEntries(_, _, _, _, _)
WeekEntries(prefix, client, glass, factory, days) ==
    IF days = <<>> THEN <<>>
    ELSE WeekEntries(prefix, client, glass, factory, SubSeq(days, 1, Len(days) - 1))
         \o <<ExtractionEntry(WeekExt(prefix \o IntToStr(Len(days)), client, glass,
                                      factory, days[Len(days)]),
                              <<glass>>, -1)>>

\* the histories of the first client: none, 3 then 6, 3 then 0, 2 then 3,
\* 3 then one record dated after today, first seen this week
AcmeDays ==
    {<<>>,
     <<PrevDay, PrevDay, PrevDay, CurrDay, CurrDay, CurrDay, CurrDay, CurrDay, CurrDay>>,
     <<PrevDay, PrevDay, PrevDay>>,
     <<PrevDay, PrevDay, CurrDay, CurrDay, CurrDay>>,
     <<PrevDay, PrevDay, PrevDay, FutureDay>>,
     <<OldDay, CurrDay>>,
     <<CurrDay>>}

\* the histories of the second client: none, 3 then 0, 4 then 1, first seen
\* this week
BetaDays ==
    {<<>>,
     <<PrevDay, PrevDay, PrevDay>>,
     <<PrevDay, PrevDay, PrevDay, PrevDay, CurrDay>>,
     <<CurrDay>>}

\* extractions without created_at that a later fetch returns
UndatedFetches ==
    {<<WeekExt("u1", "ACME", "Float", "FA", NoDay)>>,
     <<[WeekExt("u2", "Beta", "Stadip", "FB", NoDay) EXCEPT !.conf = -1]>>}

InitWeek ==
    /\ \E a \in AcmeDays : \E b \in BetaDays :
           memFile = Stored(WeekEntries("a", "ACME", "Float", "FA", a)
                            \o WeekEntries("b", "Beta", "Securit", "FB", b))
    /\ convFile = Missing
    /\ digFile = Missing
    /\ now = 0
    /\ ret = NoCall
    /\ added = <<>>
    /\ pc = NoCallers
    /\ loc = NoCallers
    /\ log = NoCallers

NextWeek ==
    \/ now < MaxWeekCalls /\ ComputeDigests
    \/ now < MaxWeekCalls /\ LoadDigests
    \/ \E data \in UndatedFetches : \E orders \in GlassOrders(data) :
           now < MaxWeekCalls /\ IngestExtractions(data, orders)

SpecWeek == InitWeek /\ [][NextWeek]_vars

(* Factory shares: a store of extraction memories of two factories, some in
   the previous week and twenty in the current week *)
\* the number of calls of a run
MaxShareCalls == 3

\* n times the day
RECURSIVE Repeat(_, _)
Repeat(day, n) == IF n = 0 THEN <<>> ELSE <<day>> \o Repeat(day, n - 1)

\* the records of the current week, and how many of them the first factory has
ShareWeek == [total |-> 20, first |-> {9, 10, 11, 12}]

\* the records each factory has in the previous week
SharePrev == {0, 1}

\* an extraction of a third factory, created in the current week
ShareFetches == {<<WeekExt("c1", "Gamma", "Float", "FC", CurrDay)>>}

InitShare ==
    /\ \E p \in SharePrev : \E k \in ShareWeek.first :
           memFile = Stored(WeekEntries("a", "ACME", "Float", "FA",
                                        Repeat(PrevDay, p) \o Repeat(CurrDay, k))
                            \o WeekEntries("b", "Beta", "Securit", "FB",
                                           Repeat(PrevDay, p)
                                           \o Repeat(CurrDay, ShareWeek.total - k)))
    /\ convFile = Missing
    /\ digFile = Missing
    /\ now = 0
    /\ ret = NoCall
    /\ added = <<>>
    /\ pc = NoCallers
    /\ loc = NoCallers
    /\ log = NoCallers

NextShare ==
    \/ now < MaxShareCalls /\ ComputeDigests
    \/ now < MaxShareCalls /\ LoadDigests
    \/ \E data \in ShareFetches : \E orders \in GlassOrders(data) :
           now < MaxShareCalls /\ IngestExtractions(data, orders)

SpecShare == InitShare /\ [][NextShare]_vars

(* POST /ingest: src/api/routes.py, ingest_endpoint *)
\* (a variant that loads what the store held before the ingestion)
DigestInputBefore(before, after) == before

\* the file compute_digests loads in the handler: the store as the ingestion
\* left it
DigestInput(before, after) == after

\* ingest_endpoint(req): available is whether monce_db can be imported
IngestEndpoint(data, orders, available) ==
    /\ IF ~available \/ LoadRaises(memFile)
       THEN /\ ret' = Raised("ingest_endpoint", data)
            /\ UNCHANGED <<memFile, digFile>>
       ELSE LET existing    == Load(memFile)
                ids         == ExistingIds(existing)
                new_entries == NewEntries(data, orders, ids, now)
                stored      == IF IngestWrites(new_entries) > 0
                               THEN Stored(existing \o new_entries) ELSE memFile
                extractions == ExtractionsOf(Load(DigestInput(memFile, stored)))
                records     == DecodeAll(extractions)
            IN  /\ memFile' = stored
                /\ IF DecodeRaises(extractions) \/ DivisionRaises(records)
                   THEN /\ ret' = Raised("ingest_endpoint", data)
                        /\ UNCHANGED digFile
                   ELSE \E h \in HashOrders(records) :
                            LET digests == IF extractions = <<>> THEN <<>>
                                           ELSE DigestsOf(records, now, h)
                            IN  /\ digFile' = Persisted(digFile, digests)
                                /\ ret' = Outcome("ingest_endpoint",
                                                  [data |-> data, orders |-> h], FALSE,
                                                  [ingested |-> Len(new_entries),
                                                   skipped |-> Skipped(data, ids),
                                                   total_fetched |-> Len(data),
                                                   digests_computed |-> Len(digests)],
                                                  IngestWrites(new_entries))
    /\ Tick
    /\ UNCHANGED <<convFile, added, pc, loc, log>>

\* the number of calls of a run
MaxIngestCalls == 2

\* what the fetch returns: nothing, one extraction, the same extraction twice,
\* an extraction with a numeric id
IngestBatches == {<<>>, <<Ext2>>, <<Ext2, Ext2>>, <<Ext1>>, <<Ext3, Ext2>>}

\* the digest an earlier run left
EarlierDigest == Digest("[DIGEST] Top glass types: Float (1)", "glass_types", "", -1)

InitIngest ==
    /\ memFile \in {Missing, Corrupt,
                    Stored(<<MemoryEntry("Bob called", "email", <<"Note">>, -1)>>)}
    /\ digFile \in {Missing, Stored(<<EarlierDigest>>)}
    /\ convFile = Missing
    /\ now = 0
    /\ ret = NoCall
    /\ added = <<>>
    /\ pc = NoCallers
    /\ loc = NoCallers
    /\ log = NoCallers

NextIngest ==
    \/ \E data \in IngestBatches : \E orders \in GlassOrders(data) :
       \E available \in BOOLEAN :
           now < MaxIngestCalls /\ IngestEndpoint(data, orders, available)
    \/ \E data \in IngestBatches : \E orders \in GlassOrders(data) :
           now < MaxIngestCalls /\ IngestExtractions(data, orders)
    \/ now < MaxIngestCalls /\ LoadDigests

SpecIngest == InitIngest /\ [][NextIngest]_vars

(* Synonym batches: src/api/snake.py, add_synonyms_batch, and its route *)
\* the synonyms of a request body: two complete article synonyms and one
\* without its num_article key
Synonyms ==
    {[text |-> "PLANILUX 4MM", num_article |-> "12345", factory_id |-> "SGD"],
     [text |-> "FLOAT 6", num_article |-> "777", factory_id |-> "GLASSYA"],
     [text |-> "STADIP", factory_id |-> "SGD"]}

\* what a request to Snake comes to: status 200, another status, or an
\* exception of requests.post (no connection, timeout)
SnakeReplies == {"ok", "refused", "unreachable"}

\* the keys add_synonyms_batch reads from a synonym of the type
SynonymKeys(synonym_type) ==
    IF synonym_type = "article" THEN {"text", "num_article", "factory_id"}
    ELSE {"text", "numero_client", "factory_id"}

\* one pass of the loop over the synonyms not yet attempted; acc holds added,
\* errors, factories_affected, the requests sent so far and the exception that
\* left the loop ("" while there is none)
RECURSIVE PushAll(_, _, _, _)
PushAll(synonyms, synonym_type, replies, acc) ==
    IF synonyms = <<>> \/ acc.raised # "" THEN acc
    ELSE LET syn  == synonyms[1]
             sent == Append(acc.requests, [path |-> "synonym", trigger_rebuild |-> FALSE])
             next ==
                 IF ~(SynonymKeys(synonym_type) \subseteq DOMAIN syn)
                 THEN [acc EXCEPT !.raised = "KeyError"]
                 ELSE IF replies[1] = "unreachable"
                 THEN [acc EXCEPT !.raised = "RequestException", !.requests = sent]
                 ELSE IF replies[1] = "refused"
                 THEN [acc EXCEPT !.errors = Append(@, syn), !.requests = sent]
                 ELSE [acc EXCEPT !.added = @ + 1,
                                  !.factories = @ \cup {syn.factory_id},
                                  !.requests = sent]
         IN  PushAll(Tail(synonyms), synonym_type, Tail(replies), next)

\* (a variant that rebuilds after every batch)
RebuildsAlways(count) == TRUE

\* if results["added"] > 0
Rebuilds(count) == count > 0

\* add_synonyms_batch(synonyms, synonym_type): replies are Snake's answers to
\* the pushes, rebuild_reply its answer to rebuild_all
SynonymsBatch(synonyms, synonym_type, replies, rebuild_reply) ==
    LET pushed == PushAll(synonyms, synonym_type, replies,
                          [added |-> 0, errors |-> <<>>, factories |-> {},
                           requests |-> <<>>, raised |-> ""])
    IN  IF pushed.raised # "" \/ ~Rebuilds(pushed.added) THEN pushed
        ELSE LET sent == Append(pushed.requests,
                                [path |-> "rebuild_all", trigger_rebuild |-> TRUE])
             IN  IF rebuild_reply = "unreachable"
                 THEN [pushed EXCEPT !.raised = "RequestException", !.requests = sent]
                 ELSE [pushed EXCEPT !.requests = sent]

\* POST /snake/synonyms_batch: the batch, then one memory when a synonym was
\* added; order is the enumeration order of factories_affected
SynonymsBatchEndpoint(synonyms, synonym_type, replies, rebuild_reply) ==
    LET result == SynonymsBatch(synonyms, synonym_type, replies, rebuild_reply)
        call   == [synonyms |-> synonyms, synonym_type |-> synonym_type,
                   replies |-> replies, rebuild_reply |-> rebuild_reply]
    IN  /\ IF result.raised # "" \/ (result.added > 0 /\ LoadRaises(memFile))
           THEN /\ ret' = Outcome("add_synonyms_batch", call, TRUE, result, 0)
                /\ UNCHANGED memFile
           ELSE IF result.added = 0
           THEN /\ ret' = Outcome("add_synonyms_batch", call, FALSE, result, 0)
                /\ UNCHANGED memFile
           ELSE \E order \in Orderings(result.factories) :
                    /\ memFile' = Stored(Appended(Load(memFile),
                           MemoryEntry("Batch added " \o IntToStr(result.added) \o " "
                                       \o synonym_type \o " synonyms to factories: "
                                       \o Join(order, ", "),
                                       "snake", <<"synonym", "batch", synonym_type>>, now)))
                    /\ ret' = Outcome("add_synonyms_batch", call, FALSE, result, 1)
        /\ Tick
        /\ UNCHANGED <<convFile, digFile, added, pc, loc, log>>

\* the number of synonyms of a batch and the number of calls of a run
MaxSynonyms == 2
MaxSnakeCalls == 1

InitSnake ==
    /\ memFile = Missing
    /\ convFile = Missing
    /\ digFile = Missing
    /\ now = 0
    /\ ret = NoCall
    /\ added = <<>>
    /\ pc = NoCallers
    /\ loc = NoCallers
    /\ log = NoCallers

NextSnake ==
    \E synonyms \in SeqsUpTo(Synonyms, MaxSynonyms) :
    \E replies \in [1..Len(synonyms) -> SnakeReplies] :
    \E rebuild_reply \in SnakeReplies :
        now < MaxSnakeCalls /\ SynonymsBatchEndpoint(synonyms, "article", replies, rebuild_reply)

SpecSnake == InitSnake /\ [][NextSnake]_vars

(* GET /intelligence: src/api/routes.py, intelligence *)
\* (a variant with the first two prefixes only)
SignalPrefixesShort == {"new_", "volume_"}

\* the type prefixes of the signals
SignalPrefixes == {"new_", "volume_", "product_", "low_", "factory_"}

\* d.get("type", "").startswith(prefixes)
IsSignal(d) == \E p \in SignalPrefixes : StartsWith(d.type, p)

\* intelligence()
Intelligence ==
    /\ ret' = IF LoadRaises(digFile) THEN Raised("intelligence", "")
              ELSE LET signals == SelectSeq(Load(digFile), IsSignal)
                   IN  Outcome("intelligence", "", FALSE,
                               [signals |-> Len(signals), entries |-> signals], 0)
    /\ Tick
    /\ UNCHANGED <<memFile, convFile, digFile, added, pc, loc, log>>

\* the number of calls of a run
MaxIntelCalls == 3

\* the histories of the two clients
IntelDays ==
    [acme |-> {<<PrevDay, PrevDay, PrevDay, CurrDay, CurrDay, CurrDay, CurrDay, CurrDay, CurrDay>>,
               <<PrevDay, PrevDay, PrevDay>>, <<OldDay, CurrDay>>},
     beta |-> {<<>>, <<PrevDay, PrevDay, PrevDay, PrevDay, CurrDay>>, <<CurrDay>>}]

\* a fetched extraction of low confidence, of a new glass type
IntelFetches ==
    {<<[WeekExt("l1", "ACME", "Stadip", "FA", CurrDay) EXCEPT !.conf = 55]>>}

InitIntel ==
    /\ \E a \in IntelDays.acme : \E b \in IntelDays.beta :
           memFile = Stored(WeekEntries("a", "ACME", "Float", "FA", a)
                            \o WeekEntries("b", "Beta", "Securit", "FB", b))
    /\ convFile = Missing
    /\ digFile = Missing
    /\ now = 0
    /\ ret = NoCall
    /\ added = <<>>
    /\ pc = NoCallers
    /\ loc = NoCallers
    /\ log = NoCallers

NextIntel ==
    \/ now < MaxIntelCalls /\ ComputeDigests
    \/ now < MaxIntelCalls /\ Intelligence
    \/ \E data \in IntelFetches : \E orders \in GlassOrders(data) :
           now < MaxIntelCalls /\ IngestExtractions(data, orders)

SpecIntel == InitIntel /\ [][NextIntel]_vars

(* POST /remember and POST /forget: src/api/routes.py *)
\* (a variant that takes the field as it comes)
Unstripped(s) == s

\* req.text.strip(), req.query.strip()
Stripped(s) == Strip(s)

\* raise HTTPException(status_code=400, detail=...)
Rejected(op, arg, detail) ==
    Outcome(op, arg, TRUE, [status |-> 400, detail |-> detail], 0)

\* remember(req)
RememberEndpoint(req) ==
    LET text == Stripped(req.text) IN
    /\ IF text = ""
       THEN /\ ret' = Rejected("remember", req, "Empty text")
            /\ UNCHANGED memFile
       ELSE IF LoadRaises(memFile)
       THEN /\ ret' = Raised("remember", req)
            /\ UNCHANGED memFile
       ELSE LET entry == MemoryEntry(text, req.source, req.tags, now) IN
            /\ memFile' = Stored(Appended(Load(memFile), entry))
            /\ ret' = Outcome("remember", req, FALSE, [remembered |-> TRUE, entry |-> entry], 1)
    /\ Tick
    /\ UNCHANGED <<convFile, digFile, added, pc, loc, log>>

\* forget_memories(req)
ForgetEndpoint(req) ==
    LET query == Stripped(req.query) IN
    /\ IF query = ""
       THEN /\ ret' = Rejected("forget_memories", req, "Empty query")
            /\ UNCHANGED memFile
       ELSE IF LoadRaises(memFile)
       THEN /\ ret' = Raised("forget_memories", req)
            /\ UNCHANGED memFile
       ELSE LET memories  == Load(memFile)
                remaining == Remaining(memories, query)
                forgotten == Len(memories) - Len(remaining)
            IN  /\ memFile' = IF ForgetWrites(forgotten) > 0 THEN Stored(remaining)
                              ELSE memFile
                /\ ret' = Outcome("forget_memories", req, FALSE,
                                  [forgotten |-> forgotten, query |-> query],
                                  ForgetWrites(forgotten))
    /\ Tick
    /\ UNCHANGED <<convFile, digFile, added, pc, loc, log>>

\* the number of calls of a run
MaxRouteCalls == 3

\* the bodies of the requests
RememberRequests ==
    {[text |-> t, source |-> "email", tags |-> <<"Note">>] : t \in {"", "  ", " Bob  called ", "glass"}}
ForgetRequests == {[query |-> q] : q \in {"", "  ", " ", " BOB ", "zzz"}}

InitRoutes ==
    /\ memFile \in {Missing,
                    Stored(<<MemoryEntry("Dupont  order", "email", <<>>, -2),
                             MemoryEntry("Bob called", "email", <<"Note">>, -1)>>)}
    /\ convFile = Missing
    /\ digFile = Missing
    /\ now = 0
    /\ ret = NoCall
    /\ added = <<>>
    /\ pc = NoCallers
    /\ loc = NoCallers
    /\ log = NoCallers

NextRoutes ==
    \/ \E req \in RememberRequests : now < MaxRouteCalls /\ RememberEndpoint(req)
    \/ \E req \in ForgetRequests : now < MaxRouteCalls /\ ForgetEndpoint(req)

SpecRoutes == InitRoutes /\ [][NextRoutes]_vars

(* The e-mail webhook: src/api/email.py, process_sns_notification *)
\* body.get(key, default)
Field(d, key, default) == IF key \in DOMAIN d THEN d[key] ELSE default

\* the lengths the body is cut to: in the query, in a memory
QuerySnippet == 2000
MemorySnippet == 200

\* the body of the mail: parse_email_from_s3, or the subject when the fetch fails
EmailBody(subject, s3) == IF s3.ok THEN s3.body ELSE subject

\* the query put to chat
MailQuery(source, subject, email_body) ==
    "[Email from " \o source \o "] Subject: " \o subject
    \o (IF email_body # "" THEN "\n\n" \o FirstN(email_body, QuerySnippet) ELSE "")

\* the two memories (the dash of the source is written "-")
IncomingMemory(source, subject, email_body, t) ==
    MemoryEntry("Email received from " \o source \o " - Subject: " \o subject \o " - "
                \o FirstN(email_body, MemorySnippet), "email", <<"email", "incoming">>, t)
OutgoingMemory(source, subject, reply_text, t) ==
    MemoryEntry("Email replied to " \o source \o " - Re: " \o subject \o " - "
                \o FirstN(reply_text, MemorySnippet), "email", <<"email", "outgoing">>, t)

\* the value of "reply_sent" in the result
ReplySent(sent) == TRUE

\* process_sns_notification(body): s3 is the outcome of the fetch of the mail,
\* reply the outcome of chat, ses the outcome of send_reply, get the outcome
\* of the confirmation request; log is the sequence of the calls made
ProcessSnsNotification(body, s3, reply, ses, get) ==
    LET msg_type == Field(body, "Type", "")
        arg      == [body |-> body, s3 |-> s3, reply |-> reply, ses |-> ses, get |-> get]
    IN
    /\ IF msg_type = "SubscriptionConfirmation" /\ Field(body, "SubscribeURL", "") # ""
       THEN /\ log' = <<[op |-> "requests.get"]>>
            /\ ret' = IF get = "ok"
                      THEN Outcome("process_sns_notification", arg, FALSE, [confirmed |-> TRUE], 0)
                      ELSE Raised("process_sns_notification", arg)
            /\ UNCHANGED memFile
       ELSE IF msg_type = "Notification"
       THEN LET mail       == Field(body, "mail", [none |-> ""])
                source     == Field(mail, "source", "unknown")
                subject    == Field(mail, "subject", "No subject")
                email_body == EmailBody(subject, s3)
                query      == MailQuery(source, subject, email_body)
                incoming   == IncomingMemory(source, subject, email_body, now)
                stored     == Appended(Load(memFile), incoming)
                asked      == <<[op |-> "add_memory", entry |-> incoming],
                                [op |-> "chat", query |-> query, memories |-> stored]>>
            IN  IF LoadRaises(memFile)
                THEN /\ log' = <<>>
                     /\ ret' = Raised("process_sns_notification", arg)
                     /\ UNCHANGED memFile
                ELSE IF reply = "raises"
                THEN /\ log' = asked
                     /\ memFile' = Stored(stored)
                     /\ ret' = Outcome("process_sns_notification", arg, TRUE, "", 1)
                ELSE IF ses = "sent"
                THEN LET outgoing == OutgoingMemory(source, subject, reply, now) IN
                     /\ log' = asked \o <<[op |-> "send_reply", to |-> source, sent |-> TRUE],
                                          [op |-> "add_memory", entry |-> outgoing]>>
                     /\ memFile' = Stored(Appended(stored, outgoing))
                     /\ ret' = Outcome("process_sns_notification", arg, FALSE,
                                       [from |-> source, subject |-> subject,
                                        reply_sent |-> ReplySent(TRUE)], 2)
                ELSE /\ log' = asked \o <<[op |-> "send_reply", to |-> source, sent |-> FALSE]>>
                     /\ memFile' = Stored(stored)
                     /\ ret' = Outcome("process_sns_notification", arg, FALSE,
                                       [from |-> source, subject |-> subject,
                                        reply_sent |-> ReplySent(FALSE)], 1)
       ELSE /\ log' = <<>>
            /\ ret' = Outcome("process_sns_notification", arg, FALSE, "None", 0)
            /\ UNCHANGED memFile
    /\ Tick
    /\ UNCHANGED <<convFile, digFile, added, pc, loc>>

\* the number of calls of a run
MaxMailCalls == 2

\* the notifications, and what the services answer
SnsBodies ==
    {[Type |-> "SubscriptionConfirmation", SubscribeURL |-> "https://sns/confirm"],
     [Type |-> "SubscriptionConfirmation"],
     [Type |-> "UnsubscribeConfirmation"],
     [Type |-> "Notification", mail |-> [source |-> "bob@acme.fr", subject |-> "Order"]],
     [Type |-> "Notification", mail |-> [source |-> "eve@beta.fr"]]}
S3Outcomes == {[ok |-> TRUE, body |-> "Please call"], [ok |-> TRUE, body |-> ""], [ok |-> FALSE, body |-> ""]}
ChatOutcomes == {"raises", "Bonjour"}
SesOutcomes == {"sent", "refused"}
GetOutcomes == {"ok", "unreachable"}

InitMail ==
    /\ memFile \in {Missing, Corrupt, Stored(<<MemoryEntry("Bob called", "email", <<"Note">>, -1)>>)}
    /\ convFile = Missing
    /\ digFile = Missing
    /\ now = 0
    /\ ret = NoCall
    /\ added = <<>>
    /\ pc = NoCallers
    /\ loc = NoCallers
    /\ log = <<>>

NextMail ==
    \E body \in SnsBodies : \E s3 \in S3Outcomes : \E reply \in ChatOutcomes :
    \E ses \in SesOutcomes : \E get \in GetOutcomes :
        now < MaxMailCalls /\ ProcessSnsNotification(body, s3, reply, ses, get)

SpecMail == InitMail /\ [][NextMail]_vars

(* Callers that run at the same time: each call is a load, then, when it
   has something to save, open(path, "w") and json.dump as separate steps *)
Callers == {"c1", "c2"}

\* the entry an earlier add_memory call left
EarlierMemory == MemoryEntry("Bob called", "email", <<"Note">>, -1)

ConcCalls ==
    {[op |-> "add_memory", arg |-> inp] : inp \in AddInputs}
    \cup {[op |-> "forget", arg |-> "BOB"],
          [op |-> "ingest_extractions", arg |-> <<Ext1>>],
          [op |-> "load_memories", arg |-> ""]}

\* open(path, "w") leaves an empty file, which json.load does not parse
Truncated == Corrupt

\* starts(a, b): the sequence a is the beginning of b
Starts(a, b) == Len(a) <= Len(b) /\ SubSeq(b, 1, Len(a)) = a

\* what a writer that opened the file before another writer's dump leaves:
\* its bytes from offset 0 over the other's; what is left of a longer text
\* after the end of a shorter one does not parse
Overlaid(file, new) ==
    IF file.st # "ok" THEN {Stored(new)}
    ELSE IF Starts(file.data, new) THEN {Stored(new)}
    ELSE IF Starts(new, file.data) THEN {Corrupt}
    ELSE {Stored(new), Corrupt}

\* what a call computes from the memories it loaded: the collection it will
\* save, the entries it appended, its return value, whether it saves
Computed(call, memories, t) ==
    IF call.op = "add_memory" THEN
        LET entry == MemoryEntry(call.arg.text, call.arg.source, call.arg.tags, t) IN
        [new |-> Appended(memories, entry), appended |-> <<entry>>,
         value |-> entry, saves |-> TRUE]
    ELSE IF call.op = "forget" THEN
        LET remaining == Remaining(memories, call.arg)
            forgotten == Len(memories) - Len(remaining) IN
        [new |-> remaining, appended |-> <<>>,
         value |-> forgotten, saves |-> ForgetWrites(forgotten) > 0]
    ELSE IF call.op = "ingest_extractions" THEN
        LET ids         == ExistingIds(memories)
            orders      == CHOOSE o \in GlassOrders(call.arg) : TRUE
            new_entries == NewEntries(call.arg, orders, ids, t) IN
        [new |-> memories \o new_entries, appended |-> new_entries,
         value |-> [ingested |-> Len(new_entries), skipped |-> Skipped(call.arg, ids),
                    total_fetched |-> Len(call.arg)],
         saves |-> IngestWrites(new_entries) > 0]
    ELSE
        [new |-> memories, appended |-> <<>>, value |-> memories, saves |-> FALSE]

\* the call starts and runs up to the return of its load_memories()
CallLoad(p, call) ==
    /\ p \notin DOMAIN pc
    /\ IF LoadRaises(memFile)
       THEN /\ pc' = (p :> "done") @@ pc
            /\ loc' = (p :> [call |-> call, appended |-> <<>>, new |-> <<>>]) @@ loc
            /\ log' = (p :> Raised(call.op, call.arg)) @@ log
       ELSE LET c == Computed(call, Load(memFile), now) IN
            /\ loc' = (p :> [call |-> call, appended |-> c.appended, new |-> c.new]) @@ loc
            /\ IF c.saves
               THEN /\ pc' = (p :> "loaded") @@ pc
                    /\ log' = (p :> Outcome(call.op, call.arg, FALSE, c.value, 1)) @@ log
               ELSE /\ pc' = (p :> "done") @@ pc
                    /\ log' = (p :> Outcome(call.op, call.arg, FALSE, c.value, 0)) @@ log
    /\ Tick
    /\ UNCHANGED <<memFile, convFile, digFile, ret, added>>

\* save_memories: open(_memories_path(), "w")
SaveOpen(p) ==
    /\ p \in DOMAIN pc /\ pc[p] = "loaded"
    /\ memFile' = Truncated
    /\ pc' = [pc EXCEPT ![p] = "opened"]
    /\ UNCHANGED <<convFile, digFile, now, ret, added, loc, log>>

\* save_memories: json.dump(memories, f, indent=2) and the close of the file
SaveDump(p) ==
    /\ p \in DOMAIN pc /\ pc[p] = "opened"
    /\ memFile' \in Overlaid(memFile, loc[p].new)
    /\ pc' = [pc EXCEPT ![p] = "done"]
    /\ UNCHANGED <<convFile, digFile, now, ret, added, loc, log>>

InitConc ==
    /\ memFile \in {Missing, Stored(<<EarlierMemory>>)}
    /\ convFile = Missing
    /\ digFile = Missing
    /\ now = 0
    /\ ret = NoCall
    /\ added = <<>>
    /\ pc = NoCallers
    /\ loc = NoCallers
    /\ log = NoCallers

NextConc ==
    \/ \E p \in Callers : \E call \in ConcCalls : CallLoad(p, call)
    \/ \E p \in Callers : SaveOpen(p)
    \/ \E p \in Callers : SaveDump(p)

SpecConc == InitConc /\ [][NextConc]_vars

----------------------------------------------------------------------------
(* Properties *)

\* query occurs in text when case is ignored, compared character by character
OccursIgnoringCase(query, text) ==
    \E i \in 0..(Len(text) - Len(query)) :
        \A k \in 1..Len(query) : LowerChar(Char(query, k)) = LowerChar(Char(text, i + k))

\* a is b with some elements left out, the others in the same order
RECURSIVE IsSubsequence(_, _)
IsSubsequence(a, b) ==
    IF a = <<>> THEN TRUE
    ELSE IF b = <<>> THEN FALSE
    ELSE \/ (a[1] = b[1] /\ IsSubsequence(Tail(a), Tail(b)))
         \/ IsSubsequence(a, Tail(b))

IsPrefix(a, b) == Len(a) <= Len(b) /\ SubSeq(b, 1, Len(a)) = a

\* C1: whenever compute_digests runs while the store holds no entry tagged
\* "extraction", it returns the empty sequence and the persisted digest
\* collection is empty afterwards: load_digests() returns no digest.
C1_EmptyRunClearsDigests ==
    (ret.op = "compute_digests" /\ ~ret.raised /\ ExtractionsOf(Load(memFile)) = <<>>)
        => /\ ret.value = <<>>
           /\ ~LoadRaises(digFile)
           /\ Load(digFile) = <<>>

\* the calls that have returned
Returned(p) == p \in DOMAIN pc /\ pc[p] = "done"

\* some other caller's forget removed entries with this text
ForgottenByOther(p, text) ==
    \E q \in Callers \ {p} :
        /\ Returned(q) /\ log[q].op = "forget" /\ ~log[q].raised
        /\ Contains(Lower(log[q].arg), Lower(text))

\* C2: once two concurrent mutating calls on the memories collection have
\* both completed, load_memories() contains every entry either of them
\* appended, except entries a forget removed.
C2_NoLostUpdate ==
    (\A p \in Callers : Returned(p)) =>
        \A p \in Callers :
            (~log[p].raised /\ log[p].op \in {"add_memory", "ingest_extractions"}) =>
                /\ ~LoadRaises(memFile)
                /\ \A i \in 1..Len(loc[p].appended) :
                       \/ InSeq(loc[p].appended[i], Load(memFile))
                       \/ ForgottenByOther(p, loc[p].appended[i].text)

\* C3: a load_memories that runs while another caller saves the collection
\* returns a complete collection and does not fail.
C3_ReaderSeesCompleteCollection ==
    \A p \in Callers :
        (Returned(p) /\ log[p].op = "load_memories") => ~log[p].raised

\* C4: starting from at most 200 stored entries, after any number of
\* save_conversation calls load_conversations() returns at most 200 entries,
\* and they are the most recently added ones, in insertion order.
C4_ConversationCap ==
    /\ ~LoadRaises(convFile)
    /\ Len(Load(convFile)) <= ConvCap
    /\ Load(convFile) = LastN(added, ConvCap)
    /\ (ret.op = "load_conversations") => (~ret.raised /\ ret.value = LastN(added, ConvCap))

\* a save on a full log evicted the oldest entries
C4_Witness ==
    /\ ret.op = "save_conversation"
    /\ Len(added) = ConvCap + 2
    /\ Len(Load(convFile)) = ConvCap
    /\ Load(convFile)[ConvCap] = ret.value
    /\ Load(convFile)[1] = added[3]

\* the calls that load each collection
MemoryCalls ==
    {"add_memory", "forget", "ingest_extractions", "compute_digests",
     "load_memories", "search_memories", "get_memories_by_tag"}
ConversationCalls == {"save_conversation", "load_conversations"}
DigestCalls == {"load_digests"}

\* the collection a call loads, before the call
LoadedBy(op) ==
    IF op \in MemoryCalls THEN memFile
    ELSE IF op \in ConversationCalls THEN convFile
    ELSE digFile

\* C7: a load of a missing store returns the empty sequence without error;
\* a call that loads a malformed store fails, does not treat the collection
\* as empty, and leaves every stored file as it was.
C7_MissingOrMalformed ==
    [][/\ (LoadedBy(ret'.op).st = "corrupt")
            => /\ ret'.raised
               /\ <<memFile', convFile', digFile'>> = <<memFile, convFile, digFile>>
       /\ (LoadedBy(ret'.op).st # "corrupt") => ~ret'.raised
       /\ (LoadedBy(ret'.op).st = "missing"
           /\ ret'.op \in {"load_memories", "load_conversations", "load_digests"})
            => ret'.value = <<>>]_vars

\* add_memory failed on a malformed memories file and left it as it was
C7_Witness ==
    /\ ret.op = "add_memory" /\ ret.raised
    /\ memFile = Corrupt


\* C5: when ingest_extractions runs twice in succession over the same fetched
\* extractions, the second run reports ingested = 0 and skipped = N and adds
\* no memory entry.
C5_SecondIngestSkipsAll ==
    [][(/\ ret.op = "ingest_extractions" /\ ~ret.raised
        /\ ret'.op = "ingest_extractions" /\ ret'.arg = ret.arg)
          => /\ ret'.value.ingested = 0
             /\ ret'.value.skipped = Len(ret.arg)
             /\ memFile' = memFile]_vars

\* C6: after a compute_digests run over a store with at least one extraction
\* memory, load_digests() returns exactly the sequence the run returned; every
\* persisted digest is one of this run, none is kept from an earlier run.
C6_DigestsReplaced ==
    (ret.op = "compute_digests" /\ ~ret.raised /\ ExtractionsOf(Load(memFile)) # <<>>)
        => /\ ret.value # <<>>
           /\ ~LoadRaises(digFile)
           /\ Load(digFile) = ret.value
           /\ \A i \in 1..Len(Load(digFile)) : Load(digFile)[i].timestamp.t = now - 1

\* a recomputation ran after an earlier one, over a store that still holds an
\* extraction
C6_Witness ==
    /\ ret.op = "compute_digests" /\ ~ret.raised /\ ret.value # <<>>
    /\ now = MaxDigestCalls
    /\ Len(Load(memFile)) = 1
    /\ Load(digFile) = ret.value

\* C8: forget(query) keeps exactly the entries whose text does not contain
\* query as a case-insensitive substring, in their order, returns the number
\* removed, and writes the store only when that number is greater than 0.
C8_Forget ==
    [][(ret'.op = "forget" /\ ~ret'.raised)
          => /\ Load(memFile') =
                    SelectSeq(Load(memFile),
                              LAMBDA m : ~OccursIgnoringCase(ret'.arg, m.text))
             /\ ret'.value = Len(Load(memFile)) - Len(Load(memFile'))
             /\ (ret'.writes > 0) <=> (ret'.value > 0)
             /\ ret'.writes <= 1
             /\ (ret'.writes = 0) => (memFile' = memFile)]_vars

\* a forget whose query differs in case from the text removed one entry of two
C8_Witness ==
    /\ ret.op = "forget" /\ ~ret.raised /\ ret.arg = "DUPONT"
    /\ ret.value = 1 /\ ret.writes = 1
    /\ Len(Load(memFile)) = 1

\* C9: add_memory extends the stored sequence by exactly one entry, at the end,
\* and returns that entry; add_memory and ingest_extractions keep every stored
\* entry as it was and in place; forget only leaves entries out; no other call
\* changes the memories.
C9_AppendOnly ==
    [][/\ (ret'.op = "add_memory" /\ ~ret'.raised)
            => /\ Load(memFile') = Append(Load(memFile), ret'.value)
               /\ ret'.value.text = ret'.arg.text
               /\ ret'.value.source = ret'.arg.source
               /\ ret'.value.tags = ret'.arg.tags
               /\ ret'.value.timestamp.t = now
       /\ (ret'.op = "ingest_extractions" /\ ~ret'.raised)
            => /\ IsPrefix(Load(memFile), Load(memFile'))
               /\ Len(Load(memFile')) = Len(Load(memFile)) + ret'.value.ingested
       /\ (ret'.op = "forget" /\ ~ret'.raised)
            => IsSubsequence(Load(memFile'), Load(memFile))
       /\ (ret'.op \notin {"add_memory", "ingest_extractions", "forget"} \/ ret'.raised)
            => memFile' = memFile]_vars

\* add_memory appended to a store that already held an entry
C9_Witness ==
    /\ ret.op = "add_memory" /\ ~ret.raised
    /\ Len(Load(memFile)) = 2
    /\ Load(memFile)[2] = ret.value
    /\ Load(memFile)[1].timestamp.t < ret.value.timestamp.t

\* C10: one ingest_extractions call writes the memories collection at most
\* once, and not at all when it adds no entry (everything fetched was skipped,
\* or nothing was fetched).
C10_SingleWrite ==
    (ret.op = "ingest_extractions" /\ ~ret.raised)
        => /\ ret.writes <= 1
           /\ (ret.value.ingested = 0) => (ret.writes = 0)
           /\ (ret.value.ingested > 0) => (ret.writes = 1)
           /\ ret.value.ingested + ret.value.skipped = ret.value.total_fetched

\* a batch of two new extractions was stored with one write
C10_Witness ==
    /\ ret.op = "ingest_extractions" /\ ~ret.raised
    /\ ret.value.ingested = 2
    /\ ret.writes = 1

\* a batch whose extractions were all skipped made no write
C10_SkippedWitness ==
    /\ ret.op = "ingest_extractions" /\ ~ret.raised
    /\ ret.value.total_fetched > 0
    /\ ret.value.skipped = ret.value.total_fetched

\* C15: when compute_digests runs twice in succession with no change to the
\* memory store in between, the two returned sequences are equal in every
\* field of every digest, and so are the two persisted collections.
C15_RepeatedRunIdentical ==
    [][(/\ ret.op = "compute_digests" /\ ~ret.raised
        /\ ret'.op = "compute_digests" /\ ~ret'.raised
        /\ memFile' = memFile)
          => (ret'.value = ret.value /\ digFile' = digFile)]_vars

\* the score the retrieval contract gives entry m for the tokens: one per
\* token found in the lowercased text, two per token equal to a lowercased tag
ContractScore(m, tokens) ==
    Cardinality({k \in 1..Len(tokens) : Contains(tokens[k], Lower(m.text))})
    + 2 * Cardinality({k \in 1..Len(tokens) :
                          \E j \in 1..Len(m.tags) : Lower(m.tags[j]) = tokens[k]})

\* the indices of the entries with a positive score, highest score first,
\* equal scores in store order
Ranked(memories, tokens) ==
    LET hits == {i \in 1..Len(memories) : ContractScore(memories[i], tokens) > 0} IN
    CHOOSE q \in Orderings(hits) :
        \A a, b \in 1..Len(q) :
            a < b => \/ ContractScore(memories[q[a]], tokens)
                            > ContractScore(memories[q[b]], tokens)
                     \/ /\ ContractScore(memories[q[a]], tokens)
                            = ContractScore(memories[q[b]], tokens)
                        /\ q[a] < q[b]

\* the first n entries of the ranking, none when n is not positive
TopRanked(memories, tokens, n) ==
    LET ranked == Ranked(memories, tokens)
        k      == IF n < Len(ranked) THEN n ELSE Len(ranked)
    IN  [i \in 1..k |-> memories[ranked[i]]]

\* C18: search_memories(query, limit) returns the entries with a positive
\* score (one per token in the text, two per token equal to a tag), highest
\* score first and equal scores in store order, cut to the first limit
\* entries; the result never has more than limit entries.
C18_SearchRanking ==
    (ret.op = "search_memories" /\ ~ret.raised)
        => /\ ret.value = TopRanked(Load(memFile), SplitWords(Lower(ret.arg.query)),
                                    ret.arg.limit)
           /\ Len(ret.value) <= (IF ret.arg.limit > 0 THEN ret.arg.limit ELSE 0)

\* entry m with one more tag
WithTag(m, tag) == [m EXCEPT !.tags = Append(@, tag)]

\* C19: for the store and the query of a search, adding to one entry a tag
\* equal to a query token never lowers that entry's score, and leaves the
\* score of every other entry as it was.
C19_TagMonotone ==
    (ret.op = "search_memories" /\ ~ret.raised)
        => LET memories == Load(memFile)
               tokens   == SplitWords(Lower(ret.arg.query))
           IN  \A i \in 1..Len(memories) : \A k \in 1..Len(tokens) :
                   LET tagged == [memories EXCEPT ![i] = WithTag(@, tokens[k])] IN
                   /\ Score(tagged[i], tokens) >= Score(memories[i], tokens)
                   /\ \A j \in 1..Len(memories) :
                          j # i => Score(tagged[j], tokens) = Score(memories[j], tokens)

\* a search ran over a store where the added tag raises the score of an entry
\* that has another tag, and leaves the score of an entry that has it
C19_Witness ==
    /\ ret.op = "search_memories" /\ ~ret.raised /\ ret.arg.query = "bob note"
    /\ Len(Load(memFile)) = 2
    /\ Load(memFile)[1].tags = <<"Note">>
    /\ Score(WithTag(Load(memFile)[1], "bob"), <<"bob", "note">>)
           = Score(Load(memFile)[1], <<"bob", "note">>) + 2
    /\ Load(memFile)[2].tags = <<"Bob", "note">>
    /\ Score(WithTag(Load(memFile)[2], "bob"), <<"bob", "note">>)
           = Score(Load(memFile)[2], <<"bob", "note">>)

\* C20: for every limit >= 0, get_memories_by_tag(tag, limit) returns only
\* entries whose tags contain tag, in store order: the min(limit, k) most
\* recent of the k matching entries, never more than limit.
C20_ByTag ==
    (ret.op = "get_memories_by_tag" /\ ~ret.raised /\ ret.arg.limit >= 0)
        => LET matching == SelectSeq(Load(memFile),
                                     LAMBDA m : \E j \in 1..Len(m.tags) : m.tags[j] = ret.arg.tag)
               k        == IF ret.arg.limit < Len(matching) THEN ret.arg.limit
                           ELSE Len(matching)
           IN  /\ ret.value = SubSeq(matching, Len(matching) - k + 1, Len(matching))
               /\ Len(ret.value) <= ret.arg.limit

\* the records compute_digests decodes from the store
StoredRecords == DecodeAll(ExtractionsOf(Load(memFile)))

\* C16: the memory tagged "extraction" whose text carries "[FactoryA]
\* status=verified" in one segment decodes to factory FactoryA, status
\* verified, client Dupont, 3 lines, glasses Planilux and Securit, confidence
\* 0.92 (92 percent) and created_date 2024-05-01.
C16_MarkerWithStatus ==
    (ret.op = "compute_digests" /\ Load(memFile)[1].text = MarkerStatusText)
        => LET r == StoredRecords[1] IN
           /\ Get(r, "factory", "") = "FactoryA"
           /\ Get(r, "status", "") = "verified"
           /\ Get(r, "client", "") = "Dupont"
           /\ Get(r, "lines", 0) = 3
           /\ Get(r, "glasses", <<>>) = <<"Planilux", "Securit">>
           /\ "confidence" \in r.has /\ r.confidence = 92
           /\ Get(r, "created_date", "") = "2024-05-01"

\* segments no pattern of the decoder matches, and numeric segments whose
\* number does not parse
UnknownSegments == {"foo=bar", ""}
UnparsableLines == {"abc line(s)", "line(s)"}
UnparsableConf == {"conf=high%"}
UnparsableMatched == {"x row(s) matched"}

\* the stripped segments of a text
SegmentsOf(text) == StripAll(Split(text, "|"))

\* the fields decoded from the segments, the text itself left out
FieldsOf(segments) ==
    [DecodeRecord(MemoryEntry(Join(segments, "|"), "", <<"extraction">>, 0))
        EXCEPT !.text = ""]

\* C17: decoding never fails: compute_digests does not raise whatever the
\* text of an extraction memory is; an unknown segment changes no field, and
\* a numeric segment that does not parse leaves its field absent, counted as 0
\* for lines and matched_rows.
C17_DecodeNeverFails ==
    (ret.op = "compute_digests")
        => /\ ~ret.raised
           /\ \A i \in 1..Len(StoredRecords) :
                LET r        == StoredRecords[i]
                    segments == SegmentsOf(r.text)
                    has(set) == \E k \in 1..Len(segments) : segments[k] \in set
                    only(word, set) ==
                        \A k \in 1..Len(segments) :
                            Contains(word, segments[k]) => segments[k] \in set
                IN  /\ r.error = ""
                    /\ FieldsOf(SelectSeq(segments, LAMBDA x : x \notin UnknownSegments))
                           = FieldsOf(segments)
                    /\ (has(UnparsableLines) /\ only("line(s)", UnparsableLines))
                           => ("lines" \notin r.has /\ Get(r, "lines", 0) = 0)
                    /\ (has(UnparsableConf) /\ only("conf=", UnparsableConf))
                           => "confidence" \notin r.has
                    /\ (has(UnparsableMatched) /\ only("row(s) matched", UnparsableMatched))
                           => ("matched_rows" \notin r.has /\ Get(r, "matched_rows", 0) = 0)

\* compute_digests returned digests for a memory with a count and a
\* confidence that do not parse
C17_Witness ==
    /\ ret.op = "compute_digests" /\ ~ret.raised
    /\ Load(memFile)[1].text = "abc line(s) | conf=high%"
    /\ StoredRecords[1].has = {}
    /\ Contains("Total measurement lines: 0", ret.value[1].text)
    /\ Contains("across 0 scored", ret.value[Len(ret.value)].text)

\* the largest weekly count of a client that the pairs of counts range over
MaxCount == 12

\* the clients of a list of (client, prev, curr) triples
AnomalyNames(triples) == {triples[i][1] : i \in 1..Len(triples)}

\* a compute_digests call returned its digests
DigestsReturned == ret.op = "compute_digests" /\ ~ret.raised

\* C11: in every compute_digests run no client is reported both as a volume
\* spike and as a volume drop: the spike list and the drop list of the run
\* have no client in common, and for every pair of a previous-week and a
\* current-week count at most one of the two tests holds.
C11_SpikeDropDisjoint ==
    /\ DigestsReturned =>
           AnomalyNames(Spikes(StoredRecords, ret.arg.clients))
           \cap AnomalyNames(Drops(StoredRecords, ret.arg.clients)) = {}
    /\ \A prev \in 0..MaxCount : \A curr \in 0..MaxCount :
           Cardinality(Anomalies(prev, curr)) <= 1

\* a run that reported a spike and a drop
C11_Witness ==
    /\ DigestsReturned
    /\ Spikes(StoredRecords, ret.arg.clients) # <<>>
    /\ Drops(StoredRecords, ret.arg.clients) # <<>>
    /\ \E d \in 1..Len(ret.value) : ret.value[d].type = "volume_spikes"
    /\ \E d \in 1..Len(ret.value) : ret.value[d].type = "volume_drops"

\* the clients of the decoded records
RecordClients(rs) == {WithClient(rs)[i].client : i \in 1..Len(WithClient(rs))}

\* the number of records of a client dated in [two_weeks_ago, week_ago)
PrevCount(rs, client) ==
    Cardinality({i \in 1..Len(rs) :
                    /\ Get(rs[i], "client", "") = client
                    /\ ~StrLess(DateOf(rs[i]), TwoWeeksAgo)
                    /\ StrLess(DateOf(rs[i]), WeekAgo)})

\* the number of records of a client dated in [week_ago, now]
CurrCount(rs, client) ==
    Cardinality({i \in 1..Len(rs) :
                    /\ Get(rs[i], "client", "") = client
                    /\ ~StrLess(DateOf(rs[i]), WeekAgo)
                    /\ ~StrLess(DateStr(TodayDay), DateOf(rs[i]))})

\* a list of triples is in descending order of its k-th component
Descending(triples, k) ==
    \A i \in 1..Len(triples) : \A j \in i..Len(triples) : triples[i][k] >= triples[j][k]

HasDigest(digests, type) == \E d \in 1..Len(digests) : digests[d].type = type

\* C12: with prev_count the number of a client's records dated in
\* [two_weeks_ago, week_ago) and curr_count the number dated in [week_ago, now],
\* a compute_digests run lists a client as a volume spike exactly when
\* prev_count >= 3 and curr_count >= 2 * prev_count and as a volume drop exactly
\* when prev_count >= 3 and curr_count <= 0.3 * prev_count, with those counts;
\* spikes come by current count descending, drops by previous count
\* descending, at most 10 of each.
C12_SpikesAndDrops ==
    DigestsReturned =>
        LET rs     == StoredRecords
            spikes == Spikes(rs, ret.arg.clients)
            drops  == Drops(rs, ret.arg.clients)
            triple(c) == <<c, PrevCount(rs, c), CurrCount(rs, c)>>
        IN  /\ {spikes[i] : i \in 1..Len(spikes)}
                 = {triple(c) : c \in {x \in RecordClients(rs) :
                        /\ PrevCount(rs, x) >= 3
                        /\ CurrCount(rs, x) >= 2 * PrevCount(rs, x)}}
            /\ {drops[i] : i \in 1..Len(drops)}
                 = {triple(c) : c \in {x \in RecordClients(rs) :
                        /\ PrevCount(rs, x) >= 3
                        /\ 10 * CurrCount(rs, x) <= 3 * PrevCount(rs, x)}}
            /\ Descending(spikes, 3)
            /\ Descending(drops, 2)
            /\ Len(FirstN(spikes, TopAnomalies)) <= 10
            /\ Len(FirstN(drops, TopAnomalies)) <= 10
            /\ HasDigest(ret.value, "volume_spikes") <=> spikes # <<>>
            /\ HasDigest(ret.value, "volume_drops") <=> drops # <<>>

\* C13: every client a compute_digests run lists as a volume spike or a volume
\* drop has at least one record in the prior-week window and at least one
\* record in the current-week window.
C13_ListedInBothWindows ==
    DigestsReturned =>
        \A c \in AnomalyNames(Spikes(StoredRecords, ret.arg.clients))
                 \cup AnomalyNames(Drops(StoredRecords, ret.arg.clients)) :
            /\ PrevCount(StoredRecords, c) >= 1
            /\ CurrCount(StoredRecords, c) >= 1

\* the digest types that are computed over date windows
WindowedTypes ==
    {"weekly_clients", "new_clients", "volume_spikes", "volume_drops",
     "new_glass_types", "product_diversification", "factory_shifts", "daily_volume"}

\* the content of the date-windowed digests among digests
WindowedContent(digests) ==
    {<<digests[d].type, digests[d].text>> :
        d \in {i \in 1..Len(digests) : digests[i].type \in WindowedTypes}}

\* the records that have a parsed created_date
Dated(rs) == SelectSeq(rs, LAMBDA r : DateOf(r) # "")

\* the contents a run over the dated records alone can give
DatedContents(rs) ==
    IF Dated(rs) = <<>> THEN {{}}
    ELSE {WindowedContent(DigestsOf(Dated(rs), 0, h)) : h \in HashOrders(Dated(rs))}

\* C14: records without a parsed created_date influence no date-windowed
\* digest: the content of weekly_clients, new_clients, volume_spikes,
\* volume_drops, new_glass_types, product_diversification, factory_shifts and
\* daily_volume that a compute_digests run returns is the content the run
\* gives over the store without its undated extraction memories.
C14_UndatedIgnored ==
    DigestsReturned => WindowedContent(ret.value) \in DatedContents(StoredRecords)

\* a digest of the type among digests names the client
ListedIn(digests, type, client) ==
    \E d \in 1..Len(digests) :
        /\ digests[d].type = type
        /\ Contains(client \o " (", digests[d].text)

\* the client has a record with a created_date on or after week_ago
SeenThisWeek(rs, client) ==
    \E i \in 1..Len(rs) :
        /\ Get(rs[i], "client", "") = client
        /\ DateOf(rs[i]) # ""
        /\ ~StrLess(DateOf(rs[i]), WeekAgo)

\* the client has a record with a created_date before week_ago
SeenBefore(rs, client) ==
    \E i \in 1..Len(rs) :
        /\ Get(rs[i], "client", "") = client
        /\ DateOf(rs[i]) # ""
        /\ StrLess(DateOf(rs[i]), WeekAgo)

\* C21: a compute_digests run lists a client in the new_clients digest exactly
\* when the client has a record with created_date >= week_ago and no record
\* with created_date < week_ago, and the run returns no new_clients digest
\* when no client qualifies.
C21_NewClients ==
    DigestsReturned =>
        LET rs  == StoredRecords
            new == {c \in RecordClients(rs) : SeenThisWeek(rs, c) /\ ~SeenBefore(rs, c)}
        IN  /\ \A c \in RecordClients(rs) :
                   ListedIn(ret.value, "new_clients", c) <=> c \in new
            /\ HasDigest(ret.value, "new_clients") <=> new # {}

\* C22: compute_digests divides by no zero, whatever the store holds: every
\* denominator of a run over a store with extraction records is non-zero and
\* the run returns its digests, the matching_quality digest among them; over a
\* store without extraction records the run returns no digest at all.
C22_NoDivisionByZero ==
    /\ ret.op = "compute_digests" => ~ret.raised
    /\ StoredRecords # <<>> => 0 \notin Denominators(StoredRecords)
    /\ DigestsReturned =>
           IF StoredRecords = <<>> THEN ret.value = <<>>
           ELSE HasDigest(ret.value, "matching_quality")

\* a run over records none of which is in the previous week, with a factory
\* counted in the current week: the previous total is 0
C22_Witness ==
    /\ DigestsReturned
    /\ Total(PrevFactory(StoredRecords)) = 0
    /\ Total(CurrFactory(StoredRecords)) > 0
    /\ HasDigest(ret.value, "factory_shifts")
    /\ HasDigest(ret.value, "matching_quality")

\* a run over a store without extraction records
C22_EmptyWitness == DigestsReturned /\ StoredRecords = <<>> /\ ret.value = <<>>

\* the factories of the decoded records
RecordFactories(rs) == {Get(rs[i], "factory", "unknown") : i \in 1..Len(rs)}

\* the place of the factory in the factory_shifts digest among digests
PlaceIn(digests, f) ==
    LET d == CHOOSE i \in 1..Len(digests) : digests[i].type = "factory_shifts"
    IN  Find(f \o " (", digests[d].text)

\* C23: a compute_digests run reports a factory in factory_shifts exactly when
\* its share of the current-week records and its share of the prior-week
\* records, each the factory's count divided by the window's total, differ by
\* more than 5 percentage points; the reported factories come by magnitude of
\* change descending, and the digest is omitted when no factory qualifies.
C23_FactoryShifts ==
    DigestsReturned =>
        LET rs      == StoredRecords
            shifted == {f \in RecordFactories(rs) : ExceedsExactly(rs, f)}
        IN  /\ \A f \in RecordFactories(rs) :
                   ListedIn(ret.value, "factory_shifts", f) <=> f \in shifted
            /\ HasDigest(ret.value, "factory_shifts") <=> shifted # {}
            /\ \A f \in shifted : \A g \in shifted :
                   (HasDigest(ret.value, "factory_shifts")
                        /\ ShiftSize(rs, f) > ShiftSize(rs, g))
                   => PlaceIn(ret.value, f) < PlaceIn(ret.value, g)

\* the digests a run over the stored memories can return at time t
RunsOver(file, t) ==
    LET extractions == ExtractionsOf(Load(file))
        records     == DecodeAll(extractions)
    IN  IF extractions = <<>> THEN {<<>>}
        ELSE {DigestsOf(records, t, h) : h \in HashOrders(records)}

\* C24: on every successful POST /ingest the digests are recomputed after the
\* ingestion has written: the digests persisted at the end of the request are
\* those of a run over the store that holds every entry this ingestion added,
\* and digests_computed is their number; when the ingestion raises, the
\* persisted digests and the store are left as they were.
C24_IngestThenDigests ==
    [][ret'.op = "ingest_endpoint" /\ now' = now + 1 =>
          IF ret'.raised THEN digFile' = digFile /\ memFile' = memFile
          ELSE /\ Len(Load(memFile')) = Len(Load(memFile)) + ret'.value.ingested
               /\ \E digests \in RunsOver(memFile', now) :
                      /\ ret'.value.digests_computed = Len(digests)
                      /\ digFile' = (IF digests = <<>> THEN digFile ELSE Stored(digests))]_vars

\* a request that stored an extraction and persisted the digests of a run
\* that counts it
C24_Witness ==
    /\ ret.op = "ingest_endpoint"
    /\ ~ret.raised
    /\ ret.value.ingested > 0
    /\ ret.value.digests_computed > 0
    /\ digFile \in {Stored(digests) : digests \in RunsOver(memFile, now - 1)}

\* the identifiers of the stored extraction memories, one per memory
StoredIds(memories) ==
    LET tagged == SelectSeq(memories, LAMBDA m : /\ InSeq("extraction", m.tags)
                                                 /\ Contains("ext_id=", m.text))
    IN  [i \in 1..Len(tagged) |-> ParseExtId(tagged[i].text)]

IngestCalls == {"ingest_extractions", "ingest_endpoint"}

\* C27: after any sequence of ingest_extractions calls, whatever the fetched
\* batches, the store holds at most one extraction memory per extraction id,
\* and every call reports ingested + skipped = total_fetched.
C27_OneEntryPerId ==
    /\ ~LoadRaises(memFile) =>
           \A i \in 1..Len(StoredIds(Load(memFile))) :
           \A j \in 1..Len(StoredIds(Load(memFile))) :
               StoredIds(Load(memFile))[i] = StoredIds(Load(memFile))[j] => i = j
    /\ (ret.op \in IngestCalls /\ ~ret.raised) =>
           ret.value.ingested + ret.value.skipped = ret.value.total_fetched

\* the places of the rebuild requests among the requests of a call
RebuildRequests(requests) ==
    {i \in 1..Len(requests) : requests[i].path = "rebuild_all"}

\* C25: add_synonyms_batch asks Snake for a rebuild at most once per call,
\* only after every synonym of the batch has been attempted, and exactly when
\* at least one synonym was added; no synonym push asks for a rebuild; a
\* synonym that Snake refuses is recorded in errors and the remaining synonyms
\* are still attempted, so added plus the number of errors is the number of
\* synonyms.
C25_RebuildOnce ==
    ret.op = "add_synonyms_batch" =>
        LET result   == ret.value
            requests == result.requests
            pushes   == {i \in 1..Len(requests) : requests[i].path = "synonym"}
        IN  /\ Cardinality(RebuildRequests(requests)) <= 1
            /\ RebuildRequests(requests) # {} <=> result.added > 0
            /\ \A i \in RebuildRequests(requests) :
                   /\ i = Len(requests)
                   /\ Cardinality(pushes) = Len(ret.arg.synonyms)
            /\ \A i \in pushes : ~requests[i].trigger_rebuild
            /\ ~ret.raised => result.added + Len(result.errors) = Len(ret.arg.synonyms)

SignalTypes ==
    {"new_clients", "new_glass_types", "volume_spikes", "volume_drops",
     "product_diversification", "low_confidence_hotspots", "factory_shifts"}

AggregateTypes ==
    {"overall", "top_clients", "daily_volume", "glass_types", "matching_quality",
     "weekly_clients"}

\* C26: GET /intelligence returns exactly the persisted digests whose text
\* starts with "[INTELLIGENCE]", in their order: digests of the seven signal
\* types and none of the six "[DIGEST]" aggregates; signals is the number of
\* entries returned.
C26_IntelligenceOnly ==
    (ret.op = "intelligence" /\ ~ret.raised) =>
        /\ ret.value.entries
             = SelectSeq(Load(digFile), LAMBDA d : StartsWith(d.text, "[INTELLIGENCE]"))
        /\ \A i \in 1..Len(ret.value.entries) :
               /\ ret.value.entries[i].type \in SignalTypes
               /\ ret.value.entries[i].type \notin AggregateTypes
        /\ \A i \in 1..Len(Load(digFile)) :
               Load(digFile)[i].type \in AggregateTypes
                   => StartsWith(Load(digFile)[i].text, "[DIGEST]")
        /\ ret.value.signals = Len(ret.value.entries)

\* a call that returned a product_diversification and a
\* low_confidence_hotspots signal and left aggregates out
C26_Witness ==
    /\ ret.op = "intelligence"
    /\ ~ret.raised
    /\ HasDigest(ret.value.entries, "product_diversification")
    /\ HasDigest(ret.value.entries, "low_confidence_hotspots")
    /\ HasDigest(ret.value.entries, "factory_shifts")
    /\ ret.value.signals < Len(Load(digFile))

\* the string is empty or holds only whitespace
Blank(s) == \A i \in 1..Len(s) : IsSpace(Char(s, i))

\* C28: a POST /forget whose query is empty or only whitespace is rejected
\* with HTTP 400 and leaves the memories as they were, although forget("")
\* would remove every entry; a POST /remember whose text is empty or only
\* whitespace is rejected with HTTP 400 and stores nothing.
C28_BlankRejected ==
    [][/\ (ret'.op = "forget_memories" /\ now' = now + 1 /\ Blank(ret'.arg.query)) =>
              /\ ret'.raised
              /\ ret'.value = [status |-> 400, detail |-> "Empty query"]
              /\ memFile' = memFile
              /\ Remaining(Load(memFile), "") = <<>>
       /\ (ret'.op = "remember" /\ now' = now + 1 /\ Blank(ret'.arg.text)) =>
              /\ ret'.raised
              /\ ret'.value = [status |-> 400, detail |-> "Empty text"]
              /\ memFile' = memFile]_vars

\* a whitespace-only query, which occurs in a stored text, was rejected and
\* the store still holds its entries
C28_Witness ==
    /\ ret.op = "forget_memories"
    /\ ret.arg.query = "  "
    /\ ret.raised
    /\ ret.value.status = 400
    /\ Len(Load(memFile)) >= 2
    /\ Remaining(Load(memFile), ret.arg.query) # Load(memFile)

\* the memories the last call stored with a tag
Tagged(memories, tag) ==
    SelectSeq(memories, LAMBDA m : InSeq(tag, m.tags) /\ m.timestamp.t = now - 1)

\* a Notification was processed
Notified == /\ ret.op = "process_sns_notification"
            /\ Field(ret.arg.body, "Type", "") = "Notification"
            /\ ~LoadRaises(memFile)

\* the incoming memory is stored first, and chat is asked with it in the store
IncomingBeforeChat ==
    /\ Len(log) >= 2
    /\ log[1].op = "add_memory" /\ InSeq("incoming", log[1].entry.tags)
    /\ log[2].op = "chat" /\ InSeq(log[1].entry, log[2].memories)

\* send_reply was called and succeeded
ReplyDelivered == \E i \in 1..Len(log) : log[i].op = "send_reply" /\ log[i].sent

\* an outgoing memory of this call exists
OutgoingStored == \E i \in 1..Len(log) : log[i].op = "add_memory" /\ InSeq("outgoing", log[i].entry.tags)

\* C29: for a Notification, the incoming memory is stored before chat is
\* asked, an outgoing memory is stored only after send_reply has succeeded,
\* and the result says reply_sent only when the reply was sent
C29_ReplySentOnlyWhenSent ==
    Notified =>
        /\ IncomingBeforeChat
        /\ OutgoingStored => ReplyDelivered
        /\ ~ReplyDelivered => Tagged(Load(memFile), "outgoing") = <<>>
        /\ (~ret.raised /\ ret.value.reply_sent) => ReplyDelivered

\* (the first two parts of C29 alone)
MailOrder ==
    Notified =>
        /\ IncomingBeforeChat
        /\ OutgoingStored => ReplyDelivered
        /\ ~ReplyDelivered => Tagged(Load(memFile), "outgoing") = <<>>
        /\ ReplyDelivered => /\ log[3].op = "send_reply" /\ log[4].op = "add_memory"
                             /\ InSeq(log[4].entry, Load(memFile))

\* the extractions the batches hold
RECURSIVE Members(_)
Members(list) == IF list = <<>> THEN {} ELSE {list[1]} \cup Members(Tail(list))
BatchExtractions == UNION {Members(data) : data \in IngestBatches}

\* the stored extraction memories built from ext
MemoriesOf(ext) ==
    SelectSeq(ExtractionsOf(Load(memFile)),
              LAMBDA m : m.source = "monce_db" /\ ParseExtId(m.text) = ext.id.s)

\* the decoded record r gives back the fields of ext (an absent status is
\* "unknown", an absent count is 0)
RoundTrip(ext, r) ==
    /\ r.error = ""
    /\ ext.factory_name # "" => Get(r, "factory", "") = ext.factory_name
    /\ Get(r, "status", "unknown") = (IF ext.status # "" THEN ext.status ELSE "unknown")
    /\ ext.nom # "" => Get(r, "client", "") = ext.nom
    /\ ext.rows >= 0 => Get(r, "lines", 0) = ext.rows
    /\ Get(r, "matched_rows", 0) = ext.matched
    /\ Get(r, "created_date", "") = FirstN(ext.created_at, DateLen)

\* C30: the record compute_digests decodes from a memory stored by
\* ingest_extractions has the factory, status, client name, number of lines,
\* number of matched rows and creation date of the extraction, also when a
\* tenant name or a client number is present
C30_RoundTrip ==
    \A ext \in BatchExtractions :
        \A i \in 1..Len(MemoriesOf(ext)) : RoundTrip(ext, DecodeRecord(MemoriesOf(ext)[i]))

\* (C30 for the extractions without a client number)
RoundTripUnnumbered ==
    \A ext \in {e \in BatchExtractions : e.numero = ""} :
        \A i \in 1..Len(MemoriesOf(ext)) : RoundTrip(ext, DecodeRecord(MemoriesOf(ext)[i]))

\* (the fields other than the client, for all extractions)
RoundTripButClient ==
    \A ext \in BatchExtractions :
        \A i \in 1..Len(MemoriesOf(ext)) :
            RoundTrip([ext EXCEPT !.nom = ""], DecodeRecord(MemoriesOf(ext)[i]))

====
